---- MODULE Spec2Model ----
(***************************************************************************)
(* Model of the data-normalisation and derived-metrics functions of the    *)
(* pick'em dashboard (src/unnamed/part_001): score resolution              *)
(* (parseScoreValue, computeScoreFromPicks, getWeeklyScore) and line       *)
(* normalisation (normaliseLineValue).                                     *)
(*                                                                         *)
(* JavaScript values are records [t |-> tag, v |-> payload]:               *)
(*   undefined, null, bool, num (finite), nan, inf (v = sign), str, arr,   *)
(*   obj (v = a function from property names to values).                   *)
(* A finite number is an integer count of 10^-FracDigits units, so that    *)
(* 0.125 and a fourth decimal digit are exact.  A string is a sequence of  *)
(* symbols: one symbol per character ("sp" = space, "nbsp" = U+00A0,       *)
(* "uminus" = U+2212, "endash" = U+2013, "emdash" = U+2014, "quarter",     *)
(* "half", ... = the vulgar-fraction glyphs), plus the symbol "Infinity"   *)
(* standing for that eight-letter word.                                    *)
(***************************************************************************)
EXTENDS Integers, Sequences, FiniteSets, TLC

VARIABLES input, ret, pc

(* The page: the loaded dataset, the value of the week select, the rows of
   the three week tables, the team tables, the two chart handles, every
   chart made so far, and the listeners init() has added. *)
VARIABLES dataset, weekSelect, scheduleTableBody, playersTableBody,
          heatmapTableBody, teamTables, scatterChart, barChart, charts,
          listeners

page == <<dataset, weekSelect, scheduleTableBody, playersTableBody,
          heatmapTableBody, teamTables, scatterChart, barChart, charts,
          listeners>>

vars == <<input, ret, pc, page>>

(* Bounds of the model *)
FracDigits == 4
MaxPicks == 2
MaxLen == 3
MaxRenders == 2

Scale == 10 ^ FracDigits
Milli == 10 ^ (FracDigits - 3)

-----------------------------------------------------------------------------
(* JavaScript values *)

Undefined == [t |-> "undefined", v |-> 0]
Null == [t |-> "null", v |-> 0]
NaN == [t |-> "nan", v |-> 0]
Inf(sign) == [t |-> "inf", v |-> sign]
Num(n) == [t |-> "num", v |-> n]
Str(s) == [t |-> "str", v |-> s]
Bool(b) == [t |-> "bool", v |-> IF b THEN 1 ELSE 0]
Arr(s) == [t |-> "arr", v |-> s]
Obj(f) == [t |-> "obj", v |-> f]

IsNumber(x) == x.t \in {"num", "nan", "inf"}
IsString(x) == x.t = "str"
IsFiniteNumber(x) == x.t = "num"
IsNullish(x) == x.t \in {"undefined", "null"}

Truthy(x) ==
  CASE x.t \in {"undefined", "null", "nan"} -> FALSE
    [] x.t = "num" -> x.v # 0
    [] x.t = "str" -> x.v # <<>>
    [] x.t = "bool" -> x.v = 1
    [] OTHER -> TRUE

(* x[key] / x.key on a non-nullish value: an own property of an object, and
   undefined for a missing property or a primitive. *)
Prop(x, key) ==
  IF x.t = "obj" /\ key \in DOMAIN x.v THEN x.v[key] ELSE Undefined

(* The property key a value converts to: a string is its own key, undefined
   is the key "undefined". *)
PropertyKey(k) == IF k.t = "str" THEN k.v ELSE <<k.t>>

(* x[k] with a computed key k, on a non-nullish value x.  An object indexed
   by computed keys (standings, a standings entry) is a function from
   strings (symbol sequences) to values. *)
PropAt(x, k) ==
  IF x.t = "obj" /\ PropertyKey(k) \in DOMAIN x.v
    THEN x.v[PropertyKey(k)]
    ELSE Undefined

-----------------------------------------------------------------------------
(* Strings *)

Digits == <<"0", "1", "2", "3", "4", "5", "6", "7", "8", "9">>
DigitSet == {Digits[i] : i \in 1..10}
DigitVal(c) == (CHOOSE i \in 1..10 : Digits[i] = c) - 1

WhiteSpace == {"sp", "nbsp", "tab"}

UpperCase == <<"A", "B", "C", "D", "E", "F", "G", "H", "I", "J", "K", "L", "M",
               "N", "O", "P", "Q", "R", "S", "T", "U", "V", "W", "X", "Y", "Z">>
LowerCase == <<"a", "b", "c", "d", "e", "f", "g", "h", "i", "j", "k", "l", "m",
               "n", "o", "p", "q", "r", "s", "t", "u", "v", "w", "x", "y", "z">>

ToLowerChar(c) ==
  IF \E i \in 1..26 : UpperCase[i] = c
    THEN LowerCase[CHOOSE i \in 1..26 : UpperCase[i] = c]
    ELSE c

ToLowerCase(s) == [i \in 1..Len(s) |-> ToLowerChar(s[i])]

RECURSIVE TrimStart(_)
TrimStart(s) ==
  IF s # <<>> /\ Head(s) \in WhiteSpace THEN TrimStart(Tail(s)) ELSE s

RECURSIVE TrimEnd(_)
TrimEnd(s) ==
  IF s # <<>> /\ s[Len(s)] \in WhiteSpace
    THEN TrimEnd(SubSeq(s, 1, Len(s) - 1))
    ELSE s

Trim(s) == TrimEnd(TrimStart(s))

(* Number of leading decimal digits of s. *)
RECURSIVE DigitRun(_)
DigitRun(s) ==
  IF s # <<>> /\ Head(s) \in DigitSet THEN 1 + DigitRun(Tail(s)) ELSE 0

RECURSIVE IntOfDigits(_)
IntOfDigits(ds) ==
  IF ds = <<>> THEN 0
  ELSE 10 * IntOfDigits(SubSeq(ds, 1, Len(ds) - 1)) + DigitVal(ds[Len(ds)])

(* The fraction digits ds as a count of units; FracDigits digits are kept. *)
FracOfDigits(ds) ==
  LET kept == IF Len(ds) > FracDigits THEN SubSeq(ds, 1, FracDigits) ELSE ds
  IN IntOfDigits(kept) * 10 ^ (FracDigits - Len(kept))

(* Number.parseFloat: leading white space is skipped, then the longest
   prefix that is a signed decimal literal or a signed Infinity is read
   (no exponent part: no modelled string holds the letter e next to digits). *)
parseFloat(s) ==
  LET t == TrimStart(s)
      signed == t # <<>> /\ Head(t) \in {"+", "-"}
      sign == IF t # <<>> /\ Head(t) = "-" THEN -1 ELSE 1
      u == IF signed THEN Tail(t) ELSE t
      intLen == DigitRun(u)
      rest == SubSeq(u, intLen + 1, Len(u))
      hasDot == rest # <<>> /\ Head(rest) = "."
      fracLen == IF hasDot THEN DigitRun(Tail(rest)) ELSE 0
      fracDigits == IF hasDot THEN SubSeq(rest, 2, fracLen + 1) ELSE <<>>
  IN IF u # <<>> /\ Head(u) = "Infinity" THEN Inf(sign)
     ELSE IF intLen = 0 /\ fracLen = 0 THEN NaN
     ELSE Num(sign * (IntOfDigits(SubSeq(u, 1, intLen)) * Scale
                      + FracOfDigits(fracDigits)))

-----------------------------------------------------------------------------
(* Score resolution *)

NumericChars == DigitSet \cup {".", "+", "-"}
IsNumericChar(c) == c \in NumericChars

(* value.trim().replace(/[^0-9.+-]/g, '') of a trimmed string *)
StripNonNumeric(s) == SelectSeq(s, IsNumericChar)

parseScoreValue(value) ==
  IF IsNumber(value)
    THEN IF IsFiniteNumber(value) THEN value ELSE Null
  ELSE IF IsString(value)
    THEN LET trimmed == Trim(value.v)
             numeric == parseFloat(StripNonNumeric(trimmed))
         IN IF trimmed = <<>> THEN Null
            ELSE IF numeric.t = "nan" \/ ~IsFiniteNumber(numeric) THEN Null
            ELSE numeric
  ELSE Null

pending == <<"p", "e", "n", "d", "i", "n", "g">>
loss == <<"l", "o", "s", "s">>

(* pick.result as the loop compares it: trimmed and lower-cased, '' when it
   is not a string *)
PickResult(pick) ==
  LET r == Prop(pick, "result")
  IN IF IsString(r) THEN ToLowerCase(Trim(r.v)) ELSE <<>>

(* The for-of loop of computeScoreFromPicks over the remaining picks ps,
   with the locals total and hasPick. *)
RECURSIVE PicksLoop(_, _, _)
PicksLoop(ps, total, hasPick) ==
  IF ps = <<>> THEN (IF hasPick THEN Num(total) ELSE Null)
  ELSE LET pick == Head(ps)
           awarded == parseScoreValue(Prop(pick, "awarded_points"))
           result == PickResult(pick)
       IN IF ~Truthy(pick) THEN PicksLoop(Tail(ps), total, hasPick)
          ELSE IF awarded = Null
            THEN IF result = <<>> \/ result = pending THEN Null
                 ELSE IF result = loss THEN PicksLoop(Tail(ps), total, TRUE)
                 ELSE Null
          ELSE PicksLoop(Tail(ps), total + awarded.v, TRUE)

(* Mutant: a result that is neither absent nor "pending" lets the loop
   continue. *)
RECURSIVE PicksLoop_anyResult(_, _, _)
PicksLoop_anyResult(ps, total, hasPick) ==
  IF ps = <<>> THEN (IF hasPick THEN Num(total) ELSE Null)
  ELSE LET pick == Head(ps)
           awarded == parseScoreValue(Prop(pick, "awarded_points"))
           result == PickResult(pick)
       IN IF ~Truthy(pick) THEN PicksLoop_anyResult(Tail(ps), total, hasPick)
          ELSE IF awarded = Null
            THEN IF result = <<>> \/ result = pending THEN Null
                 ELSE PicksLoop_anyResult(Tail(ps), total, TRUE)
          ELSE PicksLoop_anyResult(Tail(ps), total + awarded.v, TRUE)

computeScoreFromPicks_anyResult(picks) ==
  IF picks.t # "arr" \/ Len(picks.v) = 0 THEN Null
  ELSE PicksLoop_anyResult(picks.v, 0, FALSE)

(* Mutant: an ungraded pick is skipped, so a partial total is reported. *)
RECURSIVE PicksLoop_partial(_, _, _)
PicksLoop_partial(ps, total, hasPick) ==
  IF ps = <<>> THEN (IF hasPick THEN Num(total) ELSE Null)
  ELSE LET pick == Head(ps)
           awarded == parseScoreValue(Prop(pick, "awarded_points"))
           result == PickResult(pick)
       IN IF ~Truthy(pick) THEN PicksLoop_partial(Tail(ps), total, hasPick)
          ELSE IF awarded = Null
            THEN IF result = <<>> \/ result = pending
                   THEN PicksLoop_partial(Tail(ps), total, TRUE)
                 ELSE IF result = loss
                   THEN PicksLoop_partial(Tail(ps), total, TRUE)
                 ELSE Null
          ELSE PicksLoop_partial(Tail(ps), total + awarded.v, TRUE)

computeScoreFromPicks_partial(picks) ==
  IF picks.t # "arr" \/ Len(picks.v) = 0 THEN Null
  ELSE PicksLoop_partial(picks.v, 0, FALSE)

(* Mutant: hasPick is set only when points are added, so a list made only of
   losses gives null. *)
RECURSIVE PicksLoop_lossNoPick(_, _, _)
PicksLoop_lossNoPick(ps, total, hasPick) ==
  IF ps = <<>> THEN (IF hasPick THEN Num(total) ELSE Null)
  ELSE LET pick == Head(ps)
           awarded == parseScoreValue(Prop(pick, "awarded_points"))
           result == PickResult(pick)
       IN IF ~Truthy(pick) THEN PicksLoop_lossNoPick(Tail(ps), total, hasPick)
          ELSE IF awarded = Null
            THEN IF result = <<>> \/ result = pending THEN Null
                 ELSE IF result = loss
                   THEN PicksLoop_lossNoPick(Tail(ps), total, hasPick)
                 ELSE Null
          ELSE PicksLoop_lossNoPick(Tail(ps), total + awarded.v, TRUE)

computeScoreFromPicks_lossNoPick(picks) ==
  IF picks.t # "arr" \/ Len(picks.v) = 0 THEN Null
  ELSE PicksLoop_lossNoPick(picks.v, 0, FALSE)

computeScoreFromPicks(picks) ==
  IF picks.t # "arr" \/ Len(picks.v) = 0 THEN Null
  ELSE PicksLoop(picks.v, 0, FALSE)

(* standings?.[player.name] *)
StandingsEntry(player, standings) ==
  IF IsNullish(standings) THEN Undefined
  ELSE PropAt(standings, Prop(player, "name"))

(* Mutant: the total is tested for truthiness, so a total of 0 is passed over. *)
getWeeklyScore_truthyTotal(player, standings, weekName) ==
  IF ~Truthy(player) THEN Null
  ELSE LET fromPlayer == parseScoreValue(Prop(player, "total_points"))
           standingsEntry == StandingsEntry(player, standings)
           fromStandings == parseScoreValue(PropAt(standingsEntry, weekName))
       IN IF Truthy(fromPlayer) THEN fromPlayer
          ELSE IF Truthy(standingsEntry) /\ fromStandings # Null
            THEN fromStandings
          ELSE computeScoreFromPicks(Prop(player, "picks"))

(* Mutant: the picks are consulted before the standings. *)
getWeeklyScore_picksFirst(player, standings, weekName) ==
  IF ~Truthy(player) THEN Null
  ELSE LET fromPlayer == parseScoreValue(Prop(player, "total_points"))
           standingsEntry == StandingsEntry(player, standings)
           fromStandings == parseScoreValue(PropAt(standingsEntry, weekName))
           fromPicks == computeScoreFromPicks(Prop(player, "picks"))
       IN IF fromPlayer # Null THEN fromPlayer
          ELSE IF fromPicks # Null THEN fromPicks
          ELSE IF Truthy(standingsEntry) THEN fromStandings
          ELSE Null

(* Mutant: no recomputation from the picks (the standings are the last
   source). *)
getWeeklyScore_noFallback(player, standings, weekName) ==
  IF ~Truthy(player) THEN Null
  ELSE LET fromPlayer == parseScoreValue(Prop(player, "total_points"))
           standingsEntry == StandingsEntry(player, standings)
       IN IF fromPlayer # Null THEN fromPlayer
          ELSE IF ~Truthy(standingsEntry) THEN Null
          ELSE parseScoreValue(PropAt(standingsEntry, weekName))

(* Mutant: the standings value is added to the picks' score when the picks
   give one. *)
getWeeklyScore_combined(player, standings, weekName) ==
  IF ~Truthy(player) THEN Null
  ELSE LET fromPlayer == parseScoreValue(Prop(player, "total_points"))
           standingsEntry == StandingsEntry(player, standings)
           fromStandings == parseScoreValue(PropAt(standingsEntry, weekName))
           fromPicks == computeScoreFromPicks(Prop(player, "picks"))
       IN IF fromPlayer # Null THEN fromPlayer
          ELSE IF Truthy(standingsEntry) /\ fromStandings # Null
            THEN (IF fromPicks # Null THEN Num(fromStandings.v + fromPicks.v)
                  ELSE fromStandings)
          ELSE fromPicks

getWeeklyScore(player, standings, weekName) ==
  IF ~Truthy(player) THEN Null
  ELSE LET fromPlayer == parseScoreValue(Prop(player, "total_points"))
           standingsEntry == StandingsEntry(player, standings)
           fromStandings == parseScoreValue(PropAt(standingsEntry, weekName))
       IN IF fromPlayer # Null THEN fromPlayer
          ELSE IF Truthy(standingsEntry) /\ fromStandings # Null
            THEN fromStandings
          ELSE computeScoreFromPicks(Prop(player, "picks"))

-----------------------------------------------------------------------------
(* The page before init() has run: no dataset (let dataset), nothing
   selected, empty tables, no chart (let scatterChart; let barChart). *)
NoPage ==
  /\ dataset = Undefined
  /\ weekSelect = Str(<<>>)
  /\ scheduleTableBody = <<>>
  /\ playersTableBody = <<>>
  /\ heatmapTableBody = <<>>
  /\ teamTables = [teamBets |-> <<>>, teamPoints |-> <<>>]
  /\ scatterChart = Undefined
  /\ barChart = Undefined
  /\ charts = <<>>
  /\ listeners = {}

-----------------------------------------------------------------------------
(* Inputs of the score resolution *)

NameA == Str(<<"A">>)
NameB == Str(<<"B">>)
Week1 == Str(<<"W", "1">>)
Week2 == Str(<<"W", "2">>)

(* "9 pts", "abc", "", "n/a", "7", "2", " LOSS " *)
NinePts == Str(<<"9", "sp", "p", "t", "s">>)
Abc == Str(<<"a", "b", "c">>)
Empty == Str(<<>>)
NotAvailable == Str(<<"n", "/", "a">>)
SevenStr == Str(<<"7">>)
TwoStr == Str(<<"2">>)
LossShout == Str(<<"sp", "L", "O", "S", "S", "sp">>)
Win == Str(<<"w", "i", "n">>)
Push == Str(<<"P", "u", "s", "h">>)

TotalPointsValues ==
  {Undefined, NaN, Num(0), Num(14 * Scale), NinePts, Empty}

StandingsScores == {Num(7 * Scale), SevenStr, Num(0), NotAvailable, Null}

StandingsValues ==
  {Undefined, Obj(<<>>)}
    \cup {Obj(NameA.v :> Obj(Week1.v :> x)) : x \in StandingsScores}
    \cup {Obj(NameA.v :> Obj(Week2.v :> Num(7 * Scale))),
          Obj(NameB.v :> Obj(Week1.v :> Num(7 * Scale)))}

Pick(awarded, result) == Obj([awarded_points |-> awarded, result |-> result])

PickValues ==
  {Pick(a, r) : a \in {Undefined, Num(3 * Scale)},
                r \in {Undefined, Str(loss), Str(pending), Win}}
    \cup {Null, Pick(TwoStr, Undefined), Pick(Undefined, LossShout),
          Pick(Num(0), Undefined), Pick(Undefined, Push)}

PicksValues ==
  {Undefined}
    \cup {Arr(ps) : ps \in UNION {[1..n -> PickValues] : n \in 0..MaxPicks}}

Player(total, picks) ==
  Obj([name |-> NameA, total_points |-> total, picks |-> picks])

PlayerValues ==
  {Null} \cup {Player(tp, ps) : tp \in TotalPointsValues, ps \in PicksValues}

ScoreInputs ==
  {[player |-> p, standings |-> st, weekName |-> Week1] :
     p \in PlayerValues, st \in StandingsValues}

InitScore ==
  /\ input \in ScoreInputs /\ ret = Undefined /\ pc = "ready"
  /\ NoPage

CallGetWeeklyScore ==
  /\ pc = "ready"
  /\ ret' = getWeeklyScore(input.player, input.standings, input.weekName)
  /\ pc' = "getWeeklyScore"
  /\ UNCHANGED input
  /\ UNCHANGED page

(* The recomputation alone, as getWeeklyScore's last step calls it. *)
CallComputeScoreFromPicks ==
  /\ pc = "ready"
  /\ Truthy(input.player)
  /\ ret' = computeScoreFromPicks(Prop(input.player, "picks"))
  /\ pc' = "computeScoreFromPicks"
  /\ UNCHANGED input
  /\ UNCHANGED page

NextScore == CallGetWeeklyScore \/ CallComputeScoreFromPicks

SpecScore == InitScore /\ [][NextScore]_vars

-----------------------------------------------------------------------------
(* Line normalisation *)

FractionGlyphs ==
  {"quarter", "half", "threequarters", "eighth", "threeeighths",
   "fiveeighths", "seveneighths"}

(* FRACTION_VALUES, in units *)
FRACTION_VALUES ==
  [g \in FractionGlyphs |->
     CASE g = "quarter" -> 250 * Milli
       [] g = "half" -> 500 * Milli
       [] g = "threequarters" -> 750 * Milli
       [] g = "eighth" -> 125 * Milli
       [] g = "threeeighths" -> 375 * Milli
       [] g = "fiveeighths" -> 625 * Milli
       [] g = "seveneighths" -> 875 * Milli]

(* .replace(/\u00a0/g, ' ') *)
ReplaceNbsp(s) == [i \in 1..Len(s) |-> IF s[i] = "nbsp" THEN "sp" ELSE s[i]]

(* .replace(/\s+/g, ' ') *)
RECURSIVE CollapseWhiteSpace(_)
CollapseWhiteSpace(s) ==
  IF s = <<>> THEN <<>>
  ELSE IF Head(s) \in WhiteSpace
    THEN <<"sp">> \o CollapseWhiteSpace(TrimStart(s))
  ELSE <<Head(s)>> \o CollapseWhiteSpace(Tail(s))

(* .replace(/[\u2212\u2013\u2014]/g, '-') *)
ReplaceDashes(s) ==
  [i \in 1..Len(s) |->
     IF s[i] \in {"uminus", "endash", "emdash"} THEN "-" ELSE s[i]]

(* The decimal digits of a natural number. *)
RECURSIVE DigitsOf(_)
DigitsOf(n) ==
  IF n < 10 THEN <<Digits[n + 1]>>
  ELSE DigitsOf(n \div 10) \o <<Digits[(n % 10) + 1]>>

(* Number.prototype.toFixed(3) of a finite number of n units: the magnitude
   rounded to the nearest thousandth (a decimal tie goes up here; in the
   program it goes by the binary value of the number), printed with three
   decimals, after a '-' when n < 0. *)
toFixed3(n) ==
  LET mag == IF n < 0 THEN -n ELSE n
      thousandths == (mag + (Milli \div 2)) \div Milli
      frac == thousandths % 1000
  IN (IF n < 0 THEN <<"-">> ELSE <<>>)
       \o DigitsOf(thousandths \div 1000)
       \o <<".", Digits[(frac \div 100) + 1], Digits[((frac \div 10) % 10) + 1],
            Digits[(frac % 10) + 1]>>

(* const trimmed = ... *)
TrimmedLine(line) == Trim(CollapseWhiteSpace(ReplaceNbsp(line.v)))

(* const normalised = ... *)
NormalisedLine(line) == ReplaceDashes(TrimmedLine(line))

(* normalised.match(/[...]$/u) is not null *)
FractionMatch(normalised) ==
  normalised # <<>> /\ normalised[Len(normalised)] \in FractionGlyphs

FractionValue(normalised) ==
  IF FractionMatch(normalised)
    THEN FRACTION_VALUES[normalised[Len(normalised)]]
    ELSE 0

(* numeric += d, for numeric finite or infinite *)
AddTo(numeric, d) ==
  IF IsFiniteNumber(numeric) THEN Num(numeric.v + d) ELSE numeric

(* numeric after the fraction has been added (lines 506-515), for a line
   that did not return at line 508 *)
LineNumeric(normalised, signed) ==
  LET parsed == parseFloat(normalised)
      base == IF parsed = NaN THEN Num(0) ELSE parsed
      sign == IF signed /\ normalised # <<>> /\ Head(normalised) = "-"
                THEN -1 ELSE 1
  IN IF FractionValue(normalised) # 0
       THEN AddTo(base, sign * FractionValue(normalised))
       ELSE base

(* Mutant: the result is returned as computed, without toFixed(3). *)
normaliseLineValue_unrounded(line) ==
  IF IsFiniteNumber(line) THEN line
  ELSE IF ~IsString(line) THEN Null
  ELSE LET normalised == NormalisedLine(line)
           numeric == LineNumeric(normalised, TRUE)
       IN IF TrimmedLine(line) = <<>> THEN Null
          ELSE IF parseFloat(normalised) = NaN /\ ~FractionMatch(normalised)
            THEN Null
          ELSE IF ~IsFiniteNumber(numeric) THEN Null
          ELSE numeric

(* Mutant: a number input is rounded to three decimals like a string. *)
normaliseLineValue_roundsNumbers(line) ==
  IF IsFiniteNumber(line) THEN parseFloat(toFixed3(line.v))
  ELSE IF ~IsString(line) THEN Null
  ELSE LET normalised == NormalisedLine(line)
           numeric == LineNumeric(normalised, TRUE)
       IN IF TrimmedLine(line) = <<>> THEN Null
          ELSE IF parseFloat(normalised) = NaN /\ ~FractionMatch(normalised)
            THEN Null
          ELSE IF ~IsFiniteNumber(numeric) THEN Null
          ELSE parseFloat(toFixed3(numeric.v))

(* Mutant: the fraction is always added, whatever the leading sign. *)
normaliseLineValue_unsigned(line) ==
  IF IsFiniteNumber(line) THEN line
  ELSE IF ~IsString(line) THEN Null
  ELSE LET normalised == NormalisedLine(line)
           numeric == LineNumeric(normalised, FALSE)
       IN IF TrimmedLine(line) = <<>> THEN Null
          ELSE IF parseFloat(normalised) = NaN /\ ~FractionMatch(normalised)
            THEN Null
          ELSE IF ~IsFiniteNumber(numeric) THEN Null
          ELSE parseFloat(toFixed3(numeric.v))

(* Mutant: a string that does not parse counts as 0 even without a
   fraction glyph. *)
normaliseLineValue_nanIsZero(line) ==
  IF IsFiniteNumber(line) THEN line
  ELSE IF ~IsString(line) THEN Null
  ELSE LET normalised == NormalisedLine(line)
           numeric == LineNumeric(normalised, TRUE)
       IN IF TrimmedLine(line) = <<>> THEN Null
          ELSE IF ~IsFiniteNumber(numeric) THEN Null
          ELSE parseFloat(toFixed3(numeric.v))

normaliseLineValue(line) ==
  IF IsFiniteNumber(line) THEN line
  ELSE IF ~IsString(line) THEN Null
  ELSE LET normalised == NormalisedLine(line)
           numeric == LineNumeric(normalised, TRUE)
       IN IF TrimmedLine(line) = <<>> THEN Null
          ELSE IF parseFloat(normalised) = NaN /\ ~FractionMatch(normalised)
            THEN Null
          ELSE IF ~IsFiniteNumber(numeric) THEN Null
          ELSE parseFloat(toFixed3(numeric.v))

-----------------------------------------------------------------------------
(* Line formatting *)

(* s from position i on matches /\.?0+$/ *)
TrailingZerosAt(s, i) ==
  LET t == SubSeq(s, i, Len(s))
      zeros == IF t # <<>> /\ Head(t) = "." THEN Tail(t) ELSE t
  IN zeros # <<>> /\ \A j \in 1..Len(zeros) : zeros[j] = "0"

(* s.replace(/\.?0+$/, ''): the leftmost match is removed *)
StripTrailingZeros(s) ==
  IF \E i \in 1..Len(s) : TrailingZerosAt(s, i)
    THEN LET first == CHOOSE i \in 1..Len(s) :
                        /\ TrailingZerosAt(s, i)
                        /\ \A j \in 1..(i - 1) : ~TrailingZerosAt(s, j)
         IN SubSeq(s, 1, first - 1)
    ELSE s

(* s.replace(/[.0]+$/, '') *)
StripZerosAndDots(s) ==
  IF \E i \in 1..Len(s) : \A j \in i..Len(s) : s[j] \in {".", "0"}
    THEN LET first == CHOOSE i \in 1..Len(s) :
                        /\ \A j \in i..Len(s) : s[j] \in {".", "0"}
                        /\ i = 1 \/ s[i - 1] \notin {".", "0"}
         IN SubSeq(s, 1, first - 1)
    ELSE s

EmDash == Str(<<"emdash">>)

(* Mutant: the zeros are stripped with /[.0]+$/, which eats the zeros of the
   integer part too. *)
formatLine_greedyStrip(line) ==
  LET numeric == normaliseLineValue(line)
  IN IF IsNumber(numeric) /\ IsFiniteNumber(numeric)
       THEN LET display == StripZerosAndDots(toFixed3(numeric.v))
            IN Str(IF numeric.v > 0 THEN <<"+">> \o display ELSE display)
     ELSE IF IsNullish(line) \/ (IsString(line) /\ line.v = <<>>) THEN EmDash
     ELSE line

(* Mutant: the magnitude is displayed, so a negative line loses its sign. *)
formatLine_magnitude(line) ==
  LET numeric == normaliseLineValue(line)
  IN IF IsNumber(numeric) /\ IsFiniteNumber(numeric)
       THEN LET mag == IF numeric.v < 0 THEN -numeric.v ELSE numeric.v
                display == StripTrailingZeros(toFixed3(mag))
            IN Str(IF numeric.v > 0 THEN <<"+">> \o display ELSE display)
     ELSE IF IsNullish(line) \/ (IsString(line) /\ line.v = <<>>) THEN EmDash
     ELSE line

formatLine(line) ==
  LET numeric == normaliseLineValue(line)
  IN IF IsNumber(numeric) /\ IsFiniteNumber(numeric)
       THEN LET display == StripTrailingZeros(toFixed3(numeric.v))
            IN Str(IF numeric.v > 0 THEN <<"+">> \o display ELSE display)
     ELSE IF IsNullish(line) \/ (IsString(line) /\ line.v = <<>>) THEN EmDash
     ELSE line

-----------------------------------------------------------------------------
(* Inputs of the line normalisation *)

LineChars ==
  {"3", "5", ".", "-", "+", "uminus", "sp", "nbsp", "a", "half", "eighth"}

BoundedStrings(chars, n) == UNION {[1..k -> chars] : k \in 0..n}

(* "110.125", "-7.5", "0.0001" + half, "1.2346", en dash + "3" + three
   quarters, "Infinity", "-Infinity" + half, "abc", "3.5 pts" *)
LineSamples ==
  {<<"1", "1", "0", ".", "1", "2", "5">>,
   <<"-", "7", ".", "5">>,
   <<"0", ".", "0", "0", "0", "1", "half">>,
   <<"1", ".", "2", "3", "4", "6">>,
   <<"endash", "3", "threequarters">>,
   <<"Infinity">>,
   <<"-", "Infinity", "half">>,
   Abc.v,
   <<"3", ".", "5", "sp", "p", "t", "s">>}

(* Numbers with at most 3 decimals, in thousandths: -7.5, -7, -0.001, 0,
   0.001, 0.01, 0.1, 3.5, 10, 10.05, 100, 110.125 *)
ThreeDecimalNumbers ==
  {Num(k * Milli) : k \in {-7500, -7000, -1, 0, 1, 10, 100, 3500, 10000,
                           10050, 100000, 110125}}

(* and numbers with a fourth decimal: 1.0001, -7.0001, 0.0001, -0.0001 *)
LineNumbers ==
  ThreeDecimalNumbers
    \cup {Num(-3 * Scale), Num(Scale + 1), Num(-(7 * Scale + 1)),
          Num(Milli \div 10), Num(-(Milli \div 10))}

LineValues ==
  {Undefined, Null, NaN, Inf(1), Inf(-1), Bool(TRUE), Bool(FALSE),
   Obj(<<>>), Arr(<<>>)}
    \cup LineNumbers
    \cup {Str(s) : s \in BoundedStrings(LineChars, MaxLen) \cup LineSamples}

InitLine ==
  /\ input \in {[line |-> x] : x \in LineValues}
  /\ ret = Undefined /\ pc = "ready"
  /\ NoPage

CallNormaliseLineValue ==
  /\ pc = "ready"
  /\ ret' = normaliseLineValue(input.line)
  /\ pc' = "normaliseLineValue"
  /\ UNCHANGED input
  /\ UNCHANGED page

CallFormatLine ==
  /\ pc = "ready"
  /\ ret' = formatLine(input.line)
  /\ pc' = "formatLine"
  /\ UNCHANGED input
  /\ UNCHANGED page

(* normaliseLineValue(formatLine(line)) *)
CallNormaliseLineValueOfFormatted ==
  /\ pc = "formatLine"
  /\ ret' = normaliseLineValue(ret)
  /\ pc' = "normaliseLineValue(formatLine)"
  /\ UNCHANGED input
  /\ UNCHANGED page

(* formatLine(formatLine(line)) *)
CallFormatLineOfFormatted ==
  /\ pc = "formatLine"
  /\ ret' = formatLine(ret)
  /\ pc' = "formatLine(formatLine)"
  /\ UNCHANGED input
  /\ UNCHANGED page

NextLine ==
  \/ CallNormaliseLineValue
  \/ CallFormatLine
  \/ CallNormaliseLineValueOfFormatted
  \/ CallFormatLineOfFormatted

SpecLine == InitLine /\ [][NextLine]_vars

-----------------------------------------------------------------------------
(* Time sort key *)

(* Days a date string can name: the symbol stands for the ten characters of
   the date, and the number is the day's place among the modelled days. *)
Days == <<"2024-09-08", "2024-09-09">>
DaySet == {Days[i] : i \in 1..Len(Days)}
DayIndex(d) == CHOOSE i \in 1..Len(Days) : Days[i] = d

(* The time value of a Date of the modelled days.  The number of
   milliseconds is beyond the range of the units, so the instant is kept as
   the seconds since the eve of the first modelled day: a finite number
   above every clock key and below +Infinity. *)
Instant(secs) == [t |-> "instant", v |-> secs]

TwoDigits(s, i) == 10 * DigitVal(s[i]) + DigitVal(s[i + 1])
AreDigits(s, i, j) == \A k \in i..j : k <= Len(s) /\ s[k] \in DigitSet

(* new Date(string).getTime() for a string: a date, or a date, "T", hh:mm
   or hh:mm:ss and an optional "Z" (read as UTC either way); NaN for any
   other string (a string that names no day is an invalid Date in V8 and in
   SpiderMonkey). *)
DateParse(s) ==
  LET body == IF s # <<>> /\ s[Len(s)] = "Z" /\ Len(s) > 2
                THEN SubSeq(s, 1, Len(s) - 1) ELSE s
      hasDay == body # <<>> /\ Head(body) \in DaySet
      hm == /\ Len(body) \in {7, 10}
            /\ body[2] = "T" /\ AreDigits(body, 3, 4)
            /\ body[5] = ":" /\ AreDigits(body, 6, 7)
      hms == Len(body) = 10 /\ body[8] = ":" /\ AreDigits(body, 9, 10)
      secs == IF Len(body) = 10 THEN TwoDigits(body, 9) ELSE 0
  IN IF hasDay /\ Len(s) = 1 THEN Instant(DayIndex(Head(body)) * 86400)
     ELSE IF /\ hasDay /\ hm /\ (Len(body) = 10 => hms)
             /\ TwoDigits(body, 3) <= 23 /\ TwoDigits(body, 6) <= 59
             /\ secs <= 59
       THEN Instant(DayIndex(Head(body)) * 86400 + TwoDigits(body, 3) * 3600
                    + TwoDigits(body, 6) * 60 + secs)
     ELSE NaN

(* new Date(value).getTime() *)
NewDateTime(value) ==
  CASE IsString(value) -> DateParse(value.v)
    [] IsFiniteNumber(value) ->
         Num((IF value.v < 0 THEN -((-value.v) \div Scale)
              ELSE value.v \div Scale) * Scale)
    [] value.t = "bool" -> Num(value.v * Scale)
    [] value.t = "null" -> Num(0)
    [] OTHER -> NaN

(* The match of /^(\d{1,2})(?::(\d{2}))?\s*([ap])m?$/i against s, as
   <<hours, minutes, period>>, minutes <<>> when the group did not take
   part; <<>> when there is no match. *)
ClockMatchWith(s, hourLen) ==
  LET afterHour == SubSeq(s, hourLen + 1, Len(s))
      hasMinutes == /\ Len(afterHour) >= 3 /\ Head(afterHour) = ":"
                    /\ AreDigits(afterHour, 2, 3)
      afterMinutes == IF hasMinutes THEN SubSeq(afterHour, 4, Len(afterHour))
                      ELSE afterHour
      tail == TrimStart(afterMinutes)
  IN IF /\ Len(s) >= hourLen /\ AreDigits(s, 1, hourLen)
        /\ tail # <<>> /\ Head(tail) \in {"a", "p"}
        /\ (Tail(tail) = <<>> \/ Tail(tail) = <<"m">>)
       THEN <<SubSeq(s, 1, hourLen),
              IF hasMinutes THEN SubSeq(afterHour, 2, 3) ELSE <<>>,
              Head(tail)>>
       ELSE <<>>

(* first, or second when first is no match *)
MatchOr(first, second) == IF first # <<>> THEN first ELSE second

(* \d{1,2} takes two digits when the rest then matches, else one. *)
ClockMatch(s) == MatchOr(ClockMatchWith(s, 2), ClockMatchWith(s, 1))

(* return numeric unless it is NaN, else POSITIVE_INFINITY *)
NumericOrInfinity(numeric) == IF numeric # NaN THEN numeric ELSE Inf(1)

(* Mutant: the hour is not taken modulo 12, so 12am is 720 and 12pm 1440. *)
ClockOrNumeric_noWrap(value, match) ==
  IF match # <<>>
    THEN Num(((IntOfDigits(match[1]) + (IF match[3] = "p" THEN 12 ELSE 0)) * 60
              + IntOfDigits(match[2])) * Scale)
  ELSE NumericOrInfinity(parseFloat(value.v))

(* The string branch, match being the result of the pattern:
   hour * 60 + minute with hour = parseInt(hours) % 12, plus 12 for 'p',
   and minute = parseInt(minutes ?? '0'); the numeric parse otherwise. *)
ClockOrNumeric(value, match) ==
  IF match # <<>>
    THEN Num((((IntOfDigits(match[1]) % 12)
                 + (IF match[3] = "p" THEN 12 ELSE 0)) * 60
              + IntOfDigits(match[2])) * Scale)
  ELSE NumericOrInfinity(parseFloat(value.v))

(* The rest of parseTime once parsed = new Date(value).getTime() *)
TimeOrFallback(value, parsed) ==
  IF parsed # NaN THEN parsed
  ELSE IF IsString(value)
    THEN ClockOrNumeric(value, ClockMatch(Trim(ToLowerCase(value.v))))
  ELSE Inf(1)

parseTime(value) ==
  IF ~Truthy(value) THEN Inf(1)
  ELSE TimeOrFallback(value, NewDateTime(value))

-----------------------------------------------------------------------------
(* Inputs of the time sort key *)

ClockMinutes == {<<>>, <<"0", "0">>, <<"0", "5">>, <<"3", "0">>, <<"5", "9">>}

(* am, pm, a, p, " PM", "AM" *)
ClockSuffixes ==
  {<<"a", "m">>, <<"p", "m">>, <<"a">>, <<"p">>, <<"sp", "P", "M">>,
   <<"A", "M">>}

ClockString(h, mm, suffix) ==
  DigitsOf(h) \o (IF mm = <<>> THEN <<>> ELSE <<":">> \o mm) \o suffix

ClockStrings ==
  {ClockString(h, mm, sfx) :
     h \in 1..12, mm \in ClockMinutes, sfx \in ClockSuffixes}

IsoDateTime(day, hh, mm, ss) ==
  <<day, "T">> \o hh \o <<":">> \o mm \o <<":">> \o ss \o <<"Z">>

OnePm == Str(IsoDateTime(Days[1], <<"1", "3">>, <<"0", "0">>, <<"0", "0">>))
Midnight == Str(IsoDateTime(Days[1], <<"0", "0">>, <<"0", "0">>, <<"0", "0">>))
HalfPastMidnight ==
  Str(IsoDateTime(Days[1], <<"0", "0">>, <<"0", "0">>, <<"3", "0">>))
NextDayNoon ==
  Str(IsoDateTime(Days[2], <<"1", "2">>, <<"0", "0">>, <<"0", "0">>))
Tbd == Str(<<"T", "B", "D">>)
Blank == Str(<<"sp", "sp">>)

(* "730pm", "7:3pm", "7:30", "7:30 xm", "noon" do not match the pattern *)
TimeSamples ==
  {Undefined, Null, Empty, Blank, Tbd, OnePm, Midnight, HalfPastMidnight,
   NextDayNoon, Str(<<Days[2]>>),
   Str(<<"7", "3", "0", "p", "m">>), Str(<<"7", ":", "3", "p", "m">>),
   Str(<<"7", ":", "3", "0">>), Str(<<"7", ":", "3", "0", "sp", "x", "m">>),
   Str(<<"n", "o", "o", "n">>), Str(<<"sp", "7", ":", "3", "0", "p", "m", "sp">>)}

TimeValues == TimeSamples \cup {Str(s) : s \in ClockStrings}

InitTime ==
  /\ input \in {[value |-> x] : x \in TimeValues}
  /\ ret = Undefined /\ pc = "ready"
  /\ NoPage

CallParseTime ==
  /\ pc = "ready"
  /\ ret' = parseTime(input.value)
  /\ pc' = "parseTime"
  /\ UNCHANGED input
  /\ UNCHANGED page

NextTime == CallParseTime

SpecTime == InitTime /\ [][NextTime]_vars

-----------------------------------------------------------------------------
(* Schedule *)

MaxPlayers == 2

(* a.localeCompare(b) as -1, 0 or 1, for strings of letters, in the order
   of the default (ICU root) collation: the letters decide without regard
   to case, and between strings of the same letters the first difference
   of case decides, the small letter first. *)
LetterRank(c) ==
  CHOOSE i \in 1..Len(UpperCase) : UpperCase[i] = c \/ LowerCase[i] = c

RECURSIVE PrimaryCompare(_, _)
PrimaryCompare(a, b) ==
  IF a = <<>> /\ b = <<>> THEN 0
  ELSE IF a = <<>> THEN -1
  ELSE IF b = <<>> THEN 1
  ELSE IF LetterRank(Head(a)) = LetterRank(Head(b))
    THEN PrimaryCompare(Tail(a), Tail(b))
  ELSE IF LetterRank(Head(a)) < LetterRank(Head(b)) THEN -1
  ELSE 1

RECURSIVE CaseCompare(_, _)
CaseCompare(a, b) ==
  IF a = <<>> \/ b = <<>> THEN 0
  ELSE IF Head(a) = Head(b) THEN CaseCompare(Tail(a), Tail(b))
  ELSE IF ToLowerChar(Head(a)) = Head(a) THEN -1
  ELSE 1

(* first, or second when first is 0 *)
NonZeroOr(first, second) == IF first # 0 THEN first ELSE second

localeCompare(a, b) == NonZeroOr(PrimaryCompare(a, b), CaseCompare(a, b))

Includes(s, c) == \E i \in 1..Len(s) : s[i] = c

(* /T00:00(?::00)?/.test(s): the pattern is not anchored, and its optional
   group never decides the test. *)
MidnightPattern(s) ==
  \E i \in 1..Len(s) :
    i + 5 <= Len(s) /\ SubSeq(s, i, i + 5) = <<"T", "0", "0", ":", "0", "0">>

(* `${x}`.trim() is the empty string *)
TemplateIsBlank(x) ==
  CASE IsString(x) -> Trim(x.v) = <<>>
    [] x.t = "arr" -> x.v = <<>>
    [] OTHER -> FALSE

hasTeam(bestBet) ==
  IsString(Prop(bestBet, "team")) /\ Trim(Prop(bestBet, "team").v) # <<>>
hasLine(bestBet) ==
  ~IsNullish(Prop(bestBet, "line")) /\ ~TemplateIsBlank(Prop(bestBet, "line"))
hasTime(bestBet) ==
  IsString(Prop(bestBet, "time")) /\ Trim(Prop(bestBet, "time").v) # <<>>

(* The entry pushed for a player whose best bet passed the checks. *)
BestBetEntry(player) ==
  LET bestBet == Prop(player, "best_bet")
      time == Prop(bestBet, "time")
      line == Prop(bestBet, "line")
      trimmedTime == Trim(time.v)
      isDate == /\ IsString(time) /\ Includes(trimmedTime, "T")
                /\ DateParse(trimmedTime) # NaN
      dateValue == IF isDate THEN Str(trimmedTime) ELSE Null
      timeValue == IF isDate /\ MidnightPattern(trimmedTime) THEN Null
                   ELSE IF IsNullish(time) THEN Null
                   ELSE time
  IN Obj([team |-> IF hasTeam(bestBet) THEN Prop(bestBet, "team") ELSE Empty,
          line |-> IF IsNullish(line) THEN Null ELSE line,
          time |-> timeValue,
          opponent |-> Empty,
          opponent_line |-> Null,
          date |-> dateValue,
          player |-> Prop(player, "name")])

(* Mutant: only a best bet with a team gives an entry. *)
BestBetEntries_teamOnly(players) ==
  LET Kept(i) == hasTeam(Prop(players[i], "best_bet"))
      F[i \in 0..Len(players)] ==
        IF i = 0 THEN <<>>
        ELSE IF Kept(i) THEN Append(F[i - 1], BestBetEntry(players[i]))
        ELSE F[i - 1]
  IN F[Len(players)]

(* The entries of the loop over week.players (players are objects), in the
   order of week.players. *)
BestBetEntries(players) ==
  LET Kept(i) ==
        LET bestBet == Prop(players[i], "best_bet")
        IN /\ Truthy(bestBet)
           /\ (hasTeam(bestBet) \/ hasLine(bestBet) \/ hasTime(bestBet))
      F[i \in 0..Len(players)] ==
        IF i = 0 THEN <<>>
        ELSE IF Kept(i) THEN Append(F[i - 1], BestBetEntry(players[i]))
        ELSE F[i - 1]
  IN F[Len(players)]

(* parseTime(entry.time ?? entry.date) *)
SortKey(entry) ==
  parseTime(IF IsNullish(Prop(entry, "time")) THEN Prop(entry, "date")
            ELSE Prop(entry, "time"))

(* The place of a key on the number line: -Infinity, the numbers of the
   units, the instants, +Infinity. *)
KeyRank(k) ==
  CASE k.t = "inf" -> IF k.v < 0 THEN 0 ELSE 3
    [] k.t = "instant" -> 2
    [] OTHER -> 1

KeyLess(ka, kb) ==
  \/ KeyRank(ka) < KeyRank(kb)
  \/ KeyRank(ka) = KeyRank(kb) /\ ka.t # "inf" /\ ka.v < kb.v

(* The comparator of entries.sort on the keys ka, kb and the names of two
   entries, as the sign the sort sees.  For two infinite keys of the same
   sign timeDiff is NaN: NaN !== 0, so NaN is returned, and the sort takes a
   NaN result as +0. *)
compareKeys(ka, kb, playerA, playerB) ==
  IF ka.t = "inf" /\ kb.t = "inf" /\ ka.v = kb.v THEN 0
  ELSE IF KeyLess(ka, kb) THEN -1
  ELSE IF KeyLess(kb, ka) THEN 1
  ELSE localeCompare(playerA.v, playerB.v)

(* String(name), what b.player is compared as; the text of a string is
   itself. *)
NameText(name) ==
  IF IsString(name) THEN name
  ELSE IF name.t = "null" THEN Str(<<"n", "u", "l", "l">>)
  ELSE Str(<<"u", "n", "d", "e", "f", "i", "n", "e", "d">>)

(* The comparator when it returns.  It raises when it comes to the names
   with an a.player that is no string: see SortMayRaise. *)
compareEntries(a, b) ==
  compareKeys(SortKey(a), SortKey(b),
              NameText(Prop(a, "player")), NameText(Prop(b, "player")))

(* sorted with x put before the first place of before, or at the end *)
InsertBefore(x, sorted, before) ==
  LET at == IF before = {} THEN Len(sorted) + 1
            ELSE CHOOSE i \in before : \A j \in before : i <= j
  IN SubSeq(sorted, 1, at - 1) \o <<x>> \o SubSeq(sorted, at, Len(sorted))

(* Array.prototype.sort is stable: x goes before the first entry it
   compares below, after every entry it compares equal to. *)
InsertEntry(x, sorted) ==
  InsertBefore(x, sorted,
               {i \in 1..Len(sorted) : compareEntries(x, sorted[i]) < 0})

RECURSIVE SortEntries(_)
SortEntries(entries) ==
  IF entries = <<>> THEN <<>>
  ELSE InsertEntry(entries[Len(entries)],
                   SortEntries(SubSeq(entries, 1, Len(entries) - 1)))

(* What a call leaves in place of its result when it raises a TypeError. *)
TypeError == [t |-> "throw", v |-> <<"TypeError">>]

(* for (const player of week.players) raises when week.players cannot be
   iterated, and player.best_bet raises for a null or undefined player. *)
PlayersRaise(players) ==
  \/ players.t \notin {"arr", "str"}
  \/ players.t = "arr" /\ \E i \in 1..Len(players.v) : IsNullish(players.v[i])

(* timeDiff === 0: the comparator goes on to a.player.localeCompare *)
SameTime(ka, kb) ==
  ka.t # "inf" /\ kb.t # "inf" /\ ~KeyLess(ka, kb) /\ ~KeyLess(kb, ka)

(* a.player.localeCompare(b.player) raises when a.player is no string.
   Which of two entries of the same time the sort passes as a is the
   engine's choice: the sort may raise when one of them has no name, and it
   must when neither has, since a sort that returns has compared them. *)
SortMayRaise(entries) ==
  \E i, j \in 1..Len(entries) :
    /\ i # j
    /\ SameTime(SortKey(entries[i]), SortKey(entries[j]))
    /\ ~IsString(Prop(entries[i], "player"))

SortMustRaise(entries) ==
  \E i, j \in 1..Len(entries) :
    /\ i # j
    /\ SameTime(SortKey(entries[i]), SortKey(entries[j]))
    /\ ~IsString(Prop(entries[i], "player"))
    /\ ~IsString(Prop(entries[j], "player"))

HasPlayers(week) == ~IsNullish(week) /\ Truthy(Prop(week, "players"))

buildScheduleMayRaise(week) ==
  /\ HasPlayers(week)
  /\ \/ PlayersRaise(Prop(week, "players"))
     \/ /\ Prop(week, "players").t = "arr"
        /\ SortMayRaise(BestBetEntries(Prop(week, "players").v))

buildScheduleMustRaise(week) ==
  /\ HasPlayers(week)
  /\ \/ PlayersRaise(Prop(week, "players"))
     \/ /\ Prop(week, "players").t = "arr"
        /\ SortMustRaise(BestBetEntries(Prop(week, "players").v))

buildScheduleFromBestBets_teamOnly(week) ==
  IF IsNullish(week) \/ ~Truthy(Prop(week, "players")) THEN Arr(<<>>)
  ELSE Arr(SortEntries(BestBetEntries_teamOnly(Prop(week, "players").v)))

(* The array returned when the call returns; the characters of a string
   in place of the players have no best bet. *)
buildScheduleFromBestBets(week) ==
  IF IsNullish(week) \/ ~Truthy(Prop(week, "players")) THEN Arr(<<>>)
  ELSE IF Prop(week, "players").t = "str" THEN Arr(<<>>)
  ELSE Arr(SortEntries(BestBetEntries(Prop(week, "players").v)))

(* Array.prototype.filter((game) => game) *)
FilterTruthy(games) == SelectSeq(games, Truthy)

(* Mutant: the best bets are appended to the official schedule. *)
renderSchedule_merged(week) ==
  LET officialSchedule == IF Prop(week, "schedule").t = "arr"
                            THEN Prop(week, "schedule").v ELSE <<>>
      schedule == FilterTruthy(officialSchedule)
                    \o buildScheduleFromBestBets(week).v
  IN IF ~Truthy(week) THEN [games |-> <<>>, emptyStateHidden |-> 0]
     ELSE [games |-> schedule,
           emptyStateHidden |-> IF schedule = <<>> THEN 0 ELSE 1]

(* The schedule is built from the best bets when the week has no game. *)
BuildsSchedule(week) ==
  /\ Truthy(week)
  /\ FilterTruthy(IF Prop(week, "schedule").t = "arr"
                    THEN Prop(week, "schedule").v ELSE <<>>) = <<>>

renderScheduleMayRaise(week) ==
  BuildsSchedule(week) /\ buildScheduleMayRaise(week)

renderScheduleMustRaise(week) ==
  BuildsSchedule(week) /\ buildScheduleMustRaise(week)

(* renderSchedule with both elements present, as the games whose rows are in
   the table body and the hidden flag of the empty state (1 for true). *)
renderSchedule(week) ==
  LET officialSchedule == IF Prop(week, "schedule").t = "arr"
                            THEN Prop(week, "schedule").v ELSE <<>>
      filtered == FilterTruthy(officialSchedule)
      schedule == IF filtered = <<>> THEN buildScheduleFromBestBets(week).v
                  ELSE filtered
  IN IF ~Truthy(week) THEN [games |-> <<>>, emptyStateHidden |-> 0]
     ELSE [games |-> schedule,
           emptyStateHidden |-> IF schedule = <<>> THEN 0 ELSE 1]

-----------------------------------------------------------------------------
(* Inputs of the schedule *)

NameC == Str(<<"C">>)
PlayerNames == {NameA, NameB, NameC}

TeamX == Str(<<"X">>)
TeamY == Str(<<"Y">>)
TeamZ == Str(<<"Z">>)
HalfPastSevenPm == Str(<<"7", ":", "3", "0", "p", "m">>)
OneOClockPm == Str(<<"1", "sp", "P", "M">>)

(* No best bet, an empty one, the one of the documentation, a date-only
   midnight, half a minute past midnight, a line alone, clock times, a word
   for a time, a team alone, a blank team with a line. *)
BestBetValues ==
  {Undefined,
   Obj([team |-> Null, line |-> Null, time |-> Null]),
   Obj([team |-> TeamX, line |-> Num(-3 * Scale), time |-> OnePm]),
   Obj([team |-> TeamY, time |-> Midnight]),
   Obj([team |-> TeamY, line |-> Num(0), time |-> HalfPastMidnight]),
   Obj([line |-> Str(<<"-", "3", "half">>)]),
   Obj([team |-> TeamZ, time |-> HalfPastSevenPm]),
   Obj([team |-> TeamX, time |-> OneOClockPm]),
   Obj([time |-> Tbd]),
   Obj([team |-> TeamZ]),
   Obj([team |-> Blank, line |-> Num(7 * Scale + Scale \div 2)])}

SchedulePlayer(name, bestBet) == Obj([name |-> name, best_bet |-> bestBet])

(* week.players: up to MaxPlayers players of different names, in any
   order. *)
RECURSIVE PlayerLists(_)
PlayerLists(n) ==
  IF n = 0 THEN {<<>>}
  ELSE PlayerLists(n - 1) \cup
       {Append(ps, SchedulePlayer(name, bet)) :
          ps \in {qs \in PlayerLists(n - 1) : Len(qs) = n - 1},
          name \in PlayerNames, bet \in BestBetValues}

HasDistinctNames(ps) ==
  \A i, j \in 1..Len(ps) :
    Prop(ps[i], "name") = Prop(ps[j], "name") => i = j

GameOne ==
  Obj([team |-> TeamX, opponent |-> TeamY, line |-> Num(-3 * Scale),
       opponent_line |-> Num(3 * Scale), date |-> Str(<<Days[1]>>),
       time |-> OneOClockPm])
GameTwo ==
  Obj([team |-> TeamZ, opponent |-> TeamX, line |-> Null,
       opponent_line |-> Null, date |-> Null, time |-> Null])

ScheduleValues ==
  {Undefined, Arr(<<>>), Arr(<<Null>>), Arr(<<GameOne>>),
   Arr(<<Null, GameTwo>>), Arr(<<GameTwo, Null, GameOne>>)}

WeekValues ==
  {Obj([name |-> Week1, schedule |-> sch, players |-> Arr(ps)]) :
     sch \in ScheduleValues,
     ps \in {qs \in PlayerLists(MaxPlayers) : HasDistinctNames(qs)}}

(* A week of WeekValues, or no week. *)
InitSchedule ==
  /\ \/ \E w \in WeekValues : input = [week |-> w]
     \/ input = [week |-> Null]
  /\ ret = Undefined /\ pc = "ready"
  /\ NoPage

CallBuildScheduleFromBestBets ==
  /\ pc = "ready"
  /\ IF buildScheduleMustRaise(input.week) THEN ret' = TypeError
     ELSE \/ ret' = buildScheduleFromBestBets(input.week)
          \/ buildScheduleMayRaise(input.week) /\ ret' = TypeError
  /\ pc' = "buildScheduleFromBestBets"
  /\ UNCHANGED input
  /\ UNCHANGED page

CallRenderSchedule ==
  /\ pc = "ready"
  /\ IF renderScheduleMustRaise(input.week) THEN ret' = TypeError
     ELSE \/ ret' = renderSchedule(input.week)
          \/ renderScheduleMayRaise(input.week) /\ ret' = TypeError
  /\ pc' = "renderSchedule"
  /\ UNCHANGED input
  /\ UNCHANGED page

NextSchedule == CallBuildScheduleFromBestBets \/ CallRenderSchedule

SpecSchedule == InitSchedule /\ [][NextSchedule]_vars

-----------------------------------------------------------------------------
(* Leaderboard *)

(* An object whose properties are listed in the order of their creation:
   keys is that order, v the function from the keys to the values. *)
OrderedObj(pairs) ==
  [t |-> "obj",
   v |-> [k \in {pairs[i][1] : i \in 1..Len(pairs)} |->
            (pairs[CHOOSE i \in 1..Len(pairs) : pairs[i][1] = k])[2]],
   keys |-> [i \in 1..Len(pairs) |-> pairs[i][1]]]

(* Object.entries(x) *)
ObjectEntries(x) == [i \in 1..Len(x.keys) |-> <<x.keys[i], x.v[x.keys[i]]>>]

RECURSIVE Gcd(_, _)
Gcd(a, b) == IF b = 0 THEN a ELSE Gcd(b, a % b)

(* The number p / q, q > 0, in lowest terms (p in units). *)
Ratio(p, q) ==
  LET g == Gcd(IF p < 0 THEN -p ELSE p, q)
  IN [t |-> "ratio", v |-> <<p \div g, q \div g>>]

RatioLess(a, b) == a.v[1] * b.v[2] < b.v[1] * a.v[2]

(* Object.values(weeks).filter(...): the places of the finite numbers *)
FiniteScores(weeks) == {k \in DOMAIN weeks.v : IsFiniteNumber(weeks.v[k])}

RECURSIVE SumScores(_, _)
SumScores(weeks, keys) ==
  IF keys = {} THEN 0
  ELSE LET k == CHOOSE x \in keys : TRUE
       IN weeks.v[k].v + SumScores(weeks, keys \ {k})

(* Mutant: every week of the player counts as played. *)
LeaderEntry_countsAll(player, weeks) ==
  LET total == SumScores(weeks, FiniteScores(weeks))
      length == Cardinality(DOMAIN weeks.v)
  IN Obj([player |-> Str(player),
          total |-> Num(total),
          weeksPlayed |-> Num(length * Scale),
          average |-> Ratio(total, length)])

(* The entry pushed for a player with scores. *)
LeaderEntry(player, weeks) ==
  LET total == SumScores(weeks, FiniteScores(weeks))
      length == Cardinality(FiniteScores(weeks))
  IN Obj([player |-> Str(player),
          total |-> Num(total),
          weeksPlayed |-> Num(length * Scale),
          average |-> Ratio(total, length)])

(* Mutant: the scores are coerced as getWeeklyScore coerces them, so that
   "7" counts as 7. *)
RECURSIVE SumCoerced(_, _)
SumCoerced(weeks, keys) ==
  IF keys = {} THEN 0
  ELSE LET k == CHOOSE x \in keys : TRUE
       IN parseScoreValue(weeks.v[k]).v + SumCoerced(weeks, keys \ {k})

LeaderEntries_coerced(pairs) ==
  LET Coerced(weeks) ==
        {k \in DOMAIN weeks.v : parseScoreValue(weeks.v[k]) # Null}
      Kept(i) == /\ Truthy(pairs[i][2])
                 /\ pairs[i][2].t \in {"obj", "arr"}
                 /\ Coerced(pairs[i][2]) # {}
      Entry(player, weeks) ==
        Obj([player |-> Str(player),
             total |-> Num(SumCoerced(weeks, Coerced(weeks))),
             weeksPlayed |-> Num(Cardinality(Coerced(weeks)) * Scale),
             average |-> Ratio(SumCoerced(weeks, Coerced(weeks)),
                               Cardinality(Coerced(weeks)))])
      F[i \in 0..Len(pairs)] ==
        IF i = 0 THEN <<>>
        ELSE IF Kept(i) THEN Append(F[i - 1], Entry(pairs[i][1], pairs[i][2]))
        ELSE F[i - 1]
  IN F[Len(pairs)]

LeaderEntries(pairs) ==
  LET Kept(i) == /\ Truthy(pairs[i][2])
                 /\ pairs[i][2].t \in {"obj", "arr"}
                 /\ FiniteScores(pairs[i][2]) # {}
      F[i \in 0..Len(pairs)] ==
        IF i = 0 THEN <<>>
        ELSE IF Kept(i)
          THEN Append(F[i - 1], LeaderEntry(pairs[i][1], pairs[i][2]))
        ELSE F[i - 1]
  IN F[Len(pairs)]

(* Mutant: no tie-break by name. *)
compareLeaders_noName(a, b) ==
  IF Prop(b, "total") # Prop(a, "total")
    THEN (IF Prop(b, "total").v < Prop(a, "total").v THEN -1 ELSE 1)
  ELSE IF Prop(b, "weeksPlayed") # Prop(a, "weeksPlayed")
    THEN (IF Prop(b, "weeksPlayed").v < Prop(a, "weeksPlayed").v
            THEN -1 ELSE 1)
  ELSE 0

(* The comparator of entries.sort, as the sign of its result. *)
compareLeaders(a, b) ==
  IF Prop(b, "total") # Prop(a, "total")
    THEN (IF Prop(b, "total").v < Prop(a, "total").v THEN -1 ELSE 1)
  ELSE IF Prop(b, "weeksPlayed") # Prop(a, "weeksPlayed")
    THEN (IF Prop(b, "weeksPlayed").v < Prop(a, "weeksPlayed").v
            THEN -1 ELSE 1)
  ELSE IF Prop(b, "average") # Prop(a, "average")
    THEN (IF RatioLess(Prop(b, "average"), Prop(a, "average"))
            THEN -1 ELSE 1)
  ELSE localeCompare(Prop(a, "player").v, Prop(b, "player").v)

InsertLeader(x, sorted) ==
  InsertBefore(x, sorted,
               {i \in 1..Len(sorted) : compareLeaders(x, sorted[i]) < 0})

RECURSIVE SortLeaders(_)
SortLeaders(entries) ==
  IF entries = <<>> THEN <<>>
  ELSE InsertLeader(entries[Len(entries)],
                    SortLeaders(SubSeq(entries, 1, Len(entries) - 1)))

computeLeaderboard(standings) ==
  IF ~Truthy(standings) THEN Arr(<<>>)
  ELSE Arr(SortLeaders(LeaderEntries(ObjectEntries(standings))))

-----------------------------------------------------------------------------
(* Inputs of the leaderboard *)

Week3 == Str(<<"W", "3">>)

(* One week of 7; 7 and 0; 3 and 4; "7"; "7" and 3; 3; NaN and Infinity;
   0; 3, 4 and 0; 7.5 and a null; no week; then no object at all. *)
WeeksValues ==
  {Obj(Week1.v :> Num(7 * Scale)),
   Obj(Week1.v :> Num(7 * Scale) @@ Week2.v :> Num(0)),
   Obj(Week1.v :> Num(3 * Scale) @@ Week2.v :> Num(4 * Scale)),
   Obj(Week1.v :> SevenStr),
   Obj(Week1.v :> SevenStr @@ Week2.v :> Num(3 * Scale)),
   Obj(Week1.v :> Num(3 * Scale)),
   Obj(Week1.v :> NaN @@ Week2.v :> Inf(1)),
   Obj(Week1.v :> Num(0)),
   Obj(Week1.v :> Num(3 * Scale) @@ Week2.v :> Num(4 * Scale)
         @@ Week3.v :> Num(0)),
   Obj(Week1.v :> Num(7 * Scale + Scale \div 2) @@ Week2.v :> Null),
   Obj(<<>>),
   Null,
   Num(7 * Scale)}

(* The [player, weeks] pairs of a standings object of up to MaxPlayers
   players, in every order of creation. *)
RECURSIVE StandingsPairs(_)
StandingsPairs(n) ==
  IF n = 0 THEN {<<>>}
  ELSE StandingsPairs(n - 1) \cup
       {Append(ps, <<name.v, weeks>>) :
          ps \in {qs \in StandingsPairs(n - 1) : Len(qs) = n - 1},
          name \in PlayerNames, weeks \in WeeksValues}

HasDistinctKeys(pairs) ==
  \A i, j \in 1..Len(pairs) : pairs[i][1] = pairs[j][1] => i = j

LeaderboardStandings ==
  {OrderedObj(pairs) :
     pairs \in {qs \in StandingsPairs(MaxPlayers) : HasDistinctKeys(qs)}}

InitLeaderboard ==
  /\ \/ \E st \in LeaderboardStandings : input = [standings |-> st]
     \/ input = [standings |-> Null]
     \/ input = [standings |-> Undefined]
  /\ ret = Undefined /\ pc = "ready"
  /\ NoPage

CallComputeLeaderboard ==
  /\ pc = "ready"
  /\ ret' = computeLeaderboard(input.standings)
  /\ pc' = "computeLeaderboard"
  /\ UNCHANGED input
  /\ UNCHANGED page

NextLeaderboard == CallComputeLeaderboard

SpecLeaderboard == InitLeaderboard /\ [][NextLeaderboard]_vars

(* Team aggregation *)

MaxWeeks == 2

(* typeof pick.team === 'string' ? pick.team.trim() : '' *)
TeamName(pick) ==
  IF IsString(Prop(pick, "team")) THEN Trim(Prop(pick, "team").v) ELSE <<>>

(* What one pick passing the guards of the inner loop hands to the Map:
   its key, its awarded_points and the name of its week. *)
PickRecord(week, pick) ==
  [team |-> TeamName(pick),
   awarded |-> Prop(pick, "awarded_points"),
   week |-> Prop(week, "name")]

(* for (const pick of player.picks), after the guards on player and pick *)
PlayerRecords(week, player) ==
  LET picks == Prop(player, "picks")
      F[i \in 0..(IF picks.t = "arr" THEN Len(picks.v) ELSE 0)] ==
        IF i = 0 THEN <<>>
        ELSE IF Truthy(picks.v[i]) /\ TeamName(picks.v[i]) # <<>>
          THEN Append(F[i - 1], PickRecord(week, picks.v[i]))
        ELSE F[i - 1]
  IN IF ~Truthy(player) \/ picks.t # "arr" THEN <<>> ELSE F[Len(picks.v)]

(* for (const player of week.players), after the guard on week *)
WeekRecords(week) ==
  LET players == Prop(week, "players")
      F[i \in 0..(IF players.t = "arr" THEN Len(players.v) ELSE 0)] ==
        IF i = 0 THEN <<>> ELSE F[i - 1] \o PlayerRecords(week, players.v[i])
  IN IF ~Truthy(week) \/ players.t # "arr" THEN <<>> ELSE F[Len(players.v)]

(* for (const week of weeks) *)
AllRecords(weeks) ==
  LET F[i \in 0..Len(weeks)] ==
        IF i = 0 THEN <<>> ELSE F[i - 1] \o WeekRecords(weeks[i])
  IN F[Len(weeks)]

(* The keys of the Map in the order of their insertion. *)
MapKeys(records) ==
  LET F[i \in 0..Len(records)] ==
        IF i = 0 THEN <<>>
        ELSE IF \E j \in 1..(i - 1) : records[j].team = records[i].team
          THEN F[i - 1]
        ELSE Append(F[i - 1], records[i].team)
  IN F[Len(records)]

(* entry.totalPoints after the picks at the places in bets: a number is
   added, anything else adds nothing (a dataset read from JSON holds finite
   numbers only). *)
RECURSIVE SumTeamPoints(_, _)
SumTeamPoints(records, bets) ==
  IF bets = {} THEN 0
  ELSE LET i == CHOOSE x \in bets : TRUE
       IN (IF IsNumber(records[i].awarded) THEN records[i].awarded.v ELSE 0)
            + SumTeamPoints(records, bets \ {i})

(* entry.weekNames: the names added, each a string that is not blank *)
WeekNames(records, bets) ==
  {records[i].week : i \in {j \in bets : /\ IsString(records[j].week)
                                         /\ Trim(records[j].week.v) # <<>>}}

(* Mutant: only the picks with awarded points are counted as bets. *)
TeamEntry_gradedOnly(records, team, bets) ==
  LET graded == {i \in bets : IsNumber(records[i].awarded)}
  IN Obj([team |-> Str(team),
          betCount |-> Num(Cardinality(graded) * Scale),
          totalPoints |-> Num(SumTeamPoints(records, bets)),
          averagePoints |->
            IF graded = {} THEN Ratio(0, 1)
            ELSE Ratio(SumTeamPoints(records, bets), Cardinality(graded)),
          weekCount |-> Num(Cardinality(WeekNames(records, bets)) * Scale)])

(* The object the final map() makes of the Map's entry of a team, bets being
   the places of the team's picks. *)
TeamEntry(records, team, bets) ==
  Obj([team |-> Str(team),
       betCount |-> Num(Cardinality(bets) * Scale),
       totalPoints |-> Num(SumTeamPoints(records, bets)),
       averagePoints |-> Ratio(SumTeamPoints(records, bets), Cardinality(bets)),
       weekCount |-> Num(Cardinality(WeekNames(records, bets)) * Scale)])

TeamEntries(records, keys) ==
  [k \in 1..Len(keys) |->
     TeamEntry(records, keys[k],
               {i \in 1..Len(records) : records[i].team = keys[k]})]

StatsOf(records) == TeamEntries(records, MapKeys(records))

aggregateTeamStats(weeks) ==
  IF weeks.t # "arr" THEN Arr(<<>>) ELSE Arr(StatsOf(AllRecords(weeks.v)))

(* The sign of b.field - a.field of two entries, 0 when the fields are equal *)
Descending(a, b, field) ==
  IF Prop(b, field).v = Prop(a, field).v THEN 0
  ELSE IF Prop(b, field).v < Prop(a, field).v THEN -1
  ELSE 1

compareTeamNames(a, b) == localeCompare(Prop(a, "team").v, Prop(b, "team").v)

(* Mutant: the points are not compared. *)
compareByCount_noPoints(a, b) ==
  NonZeroOr(Descending(a, b, "betCount"), compareTeamNames(a, b))

(* The comparator of byCount, as the sign of its result. *)
compareByCount(a, b) ==
  NonZeroOr(Descending(a, b, "betCount"),
            NonZeroOr(Descending(a, b, "totalPoints"),
                      compareTeamNames(a, b)))

(* The comparator of byPoints, as the sign of its result. *)
compareByPoints(a, b) ==
  NonZeroOr(Descending(a, b, "totalPoints"),
            NonZeroOr(Descending(a, b, "weekCount"),
                      NonZeroOr(Descending(a, b, "betCount"),
                                compareTeamNames(a, b))))

RECURSIVE SortByCount(_)
SortByCount(entries) ==
  IF entries = <<>> THEN <<>>
  ELSE LET sorted == SortByCount(SubSeq(entries, 1, Len(entries) - 1))
       IN InsertBefore(entries[Len(entries)], sorted,
                       {i \in 1..Len(sorted) :
                          compareByCount(entries[Len(entries)], sorted[i]) < 0})

RECURSIVE SortByPoints(_)
SortByPoints(entries) ==
  IF entries = <<>> THEN <<>>
  ELSE LET sorted == SortByPoints(SubSeq(entries, 1, Len(entries) - 1))
       IN InsertBefore(entries[Len(entries)], sorted,
                       {i \in 1..Len(sorted) :
                          compareByPoints(entries[Len(entries)], sorted[i]) < 0})

(* Mutant: the selected week is ignored. *)
FilteredWeeks_all(weeks, selectedWeek) ==
  IF weeks.t = "arr" THEN weeks ELSE Arr(<<>>)

(* weeks.filter((week) => !selectedWeek || week?.name === selectedWeek) *)
FilteredWeeks(weeks, selectedWeek) ==
  LET Kept(week) == \/ ~Truthy(selectedWeek)
                    \/ /\ IsString(Prop(week, "name"))
                       /\ IsString(selectedWeek)
                       /\ Prop(week, "name").v = selectedWeek.v
  IN IF weeks.t = "arr" THEN Arr(SelectSeq(weeks.v, Kept)) ELSE Arr(<<>>)

maxRows == 25

Slice(s, n) == SubSeq(s, 1, IF Len(s) < n THEN Len(s) ELSE n)

(* What renderTeamStats leaves behind, its table bodies and empty states
   being there: stats, the two sorted copies, and the entries of the rows
   of the two tables. *)
TeamTables(stats) ==
  [stats |-> stats,
   byCount |-> SortByCount(stats),
   byPoints |-> SortByPoints(stats),
   teamBets |-> Slice(SortByCount(stats), maxRows),
   teamPoints |-> Slice(SortByPoints(stats), maxRows),
   emptyStateHidden |-> IF stats = <<>> THEN 0 ELSE 1]

renderTeamStats(weeks, selectedWeek) ==
  TeamTables(aggregateTeamStats(FilteredWeeks(weeks, selectedWeek)).v)

-----------------------------------------------------------------------------
(* Inputs of the team aggregation *)

Jets == Str(<<"J", "e", "t", "s">>)
JetsPadded == Str(<<"sp", "J", "e", "t", "s", "sp">>)
jets == Str(<<"j", "e", "t", "s">>)
Bills == Str(<<"B", "i", "l", "l", "s">>)

TeamPick(team, awarded) == Obj([team |-> team, awarded_points |-> awarded])

TeamPlayer(picks) == Obj([name |-> NameA, picks |-> Arr(picks)])

(* The lists of players of a week: one with a graded and an ungraded pick;
   the same team once ungraded and once padded; a team in small letters, a
   string for the points and a blank team; a null pick, a pick without a
   team and a late win; two players, a null entry and one without picks. *)
TeamPlayersValues ==
  {<<TeamPlayer(<<TeamPick(Jets, Num(3 * Scale)), TeamPick(Bills, Null)>>)>>,
   <<TeamPlayer(<<TeamPick(Jets, Null),
                  TeamPick(JetsPadded, Num(4 * Scale))>>)>>,
   <<TeamPlayer(<<TeamPick(jets, Num(3 * Scale)), TeamPick(Bills, TwoStr),
                  TeamPick(Blank, Num(3 * Scale))>>)>>,
   <<TeamPlayer(<<Null, TeamPick(Undefined, Num(3 * Scale)),
                  TeamPick(Bills, Num(3 * Scale))>>)>>,
   <<TeamPlayer(<<TeamPick(Bills, Num(3 * Scale))>>), Null,
     Obj([name |-> NameB]),
     TeamPlayer(<<TeamPick(Jets, Num(3 * Scale + Scale \div 2))>>)>>}

TeamWeek(name, players) == Obj([name |-> name, players |-> Arr(players)])

(* Weeks named "W1" and "W2" of each list of players, a week with a blank
   name, a week with an empty name, and a week without players. *)
TeamWeekValues ==
  {TeamWeek(name, players) :
     name \in {Week1, Week2}, players \in TeamPlayersValues}
    \cup {TeamWeek(Blank, <<TeamPlayer(<<TeamPick(Jets, Num(Scale))>>)>>),
          TeamWeek(Empty, <<TeamPlayer(<<TeamPick(Bills, Num(Scale))>>)>>),
          Obj([name |-> Week1])}

RECURSIVE TeamWeekLists(_)
TeamWeekLists(n) ==
  IF n = 0 THEN {<<>>}
  ELSE TeamWeekLists(n - 1) \cup
       {Append(ws, w) : ws \in {qs \in TeamWeekLists(n - 1) : Len(qs) = n - 1},
                        w \in TeamWeekValues}

(* The weeks the select can name, and one that is in no list *)
SelectedWeekValues == {Week1, Week2, Week3}

InitTeams ==
  /\ \E ws \in TeamWeekLists(MaxWeeks) :
       \/ \E sel \in SelectedWeekValues :
            input = [weeks |-> Arr(ws), selectedWeek |-> sel]
       \/ input = [weeks |-> Arr(ws), selectedWeek |-> Null]
       \/ input = [weeks |-> Arr(ws \o <<Null>>), selectedWeek |-> Null]
       \/ input = [weeks |-> Arr(ws \o <<Null>>), selectedWeek |-> Week1]
  /\ ret = Undefined /\ pc = "ready"
  /\ NoPage

CallAggregateTeamStats ==
  /\ pc = "ready"
  /\ ret' = aggregateTeamStats(input.weeks)
  /\ pc' = "aggregateTeamStats"
  /\ UNCHANGED input
  /\ UNCHANGED page

CallRenderTeamStats ==
  /\ pc = "ready"
  /\ ret' = renderTeamStats(input.weeks, input.selectedWeek)
  /\ pc' = "renderTeamStats"
  /\ UNCHANGED input
  /\ UNCHANGED page

NextTeams == CallAggregateTeamStats \/ CallRenderTeamStats

SpecTeams == InitTeams /\ [][NextTeams]_vars

(* Heatmap colours *)

(* A colour of four channels, as mixColors prints it: red, green and blue
   whole, alpha in thousandths. *)
Rgba(r, g, b, alpha) == [t |-> "rgba", v |-> <<r, g, b, alpha>>]

HexDigits == <<"0", "1", "2", "3", "4", "5", "6", "7", "8", "9",
               "a", "b", "c", "d", "e", "f">>

IsHexDigit(c) == \E i \in 1..Len(HexDigits) : HexDigits[i] = ToLowerChar(c)

HexVal(c) == (CHOOSE i \in 1..Len(HexDigits) : HexDigits[i] = ToLowerChar(c)) - 1

(* Number.parseInt(channel, 16) of two characters, 0 for NaN *)
parseHexChannel(channel) ==
  IF ~IsHexDigit(channel[1]) THEN 0
  ELSE IF ~IsHexDigit(channel[2]) THEN HexVal(channel[1])
  ELSE 16 * HexVal(channel[1]) + HexVal(channel[2])

(* The channels of hexToRgba, alpha as <<numerator, denominator>>; null for
   a length other than 3, 4, 6 or 8. *)
HexChannels(value) ==
  IF Len(value) \in {3, 4}
    THEN Arr(<<parseHexChannel(<<value[1], value[1]>>),
               parseHexChannel(<<value[2], value[2]>>),
               parseHexChannel(<<value[3], value[3]>>),
               IF Len(value) = 4
                 THEN <<parseHexChannel(<<value[4], value[4]>>), 255>>
               ELSE <<1, 1>>>>)
  ELSE IF Len(value) \in {6, 8}
    THEN Arr(<<parseHexChannel(SubSeq(value, 1, 2)),
               parseHexChannel(SubSeq(value, 3, 4)),
               parseHexChannel(SubSeq(value, 5, 6)),
               IF Len(value) = 8
                 THEN <<parseHexChannel(SubSeq(value, 7, 8)), 255>>
               ELSE <<1, 1>>>>)
  ELSE Null

(* hex.replace('#', '').trim() of a string that starts with '#' *)
hexToRgba(hex) == HexChannels(Trim(Tail(hex)))

(* The colours of the theme are written with '#'. A colour written as
   rgb(...) or by name is read by another branch and is not among the
   inputs. *)
normaliseColor(color) ==
  IF ~Truthy(color) THEN Null
  ELSE IF Trim(color.v) = <<>> THEN Null
  ELSE IF Head(Trim(color.v)) = "#" THEN hexToRgba(Trim(color.v))
  ELSE Null

(* The least and the greatest of two ratios <<p, q>>, q > 0 *)
RatioMax(a, b) == IF a[1] * b[2] < b[1] * a[2] THEN b ELSE a
RatioMin(a, b) == IF b[1] * a[2] < a[1] * b[2] THEN b ELSE a

(* Mutant: the ratio is not held above 0. *)
clamp_noFloor(value, min, max) == RatioMin(value, max)

clamp(value, min, max) == RatioMin(RatioMax(value, min), max)

(* Math.round of the ratio p / q, q > 0: halves go up *)
MathRound(p, q) == (2 * p + q) \div (2 * q)

(* value + (end - value) * t rounded, t being <<p, q>> *)
MixChannel(value, end, t) ==
  MathRound(value * t[2] + (end - value) * t[1], t[2])

(* The alpha of the mix in thousandths: start and end are <<p, q>> *)
MixAlpha(start, end, t) ==
  MathRound(1000 * (start[1] * end[2] * t[2]
                      + (end[1] * start[2] - start[1] * end[2]) * t[1]),
            start[2] * end[2] * t[2])

MixOf(startRgba, endRgba, t) ==
  IF ~Truthy(startRgba) \/ ~Truthy(endRgba) THEN Null
  ELSE Rgba(MixChannel(startRgba.v[1], endRgba.v[1], t),
            MixChannel(startRgba.v[2], endRgba.v[2], t),
            MixChannel(startRgba.v[3], endRgba.v[3], t),
            MixAlpha(startRgba.v[4], endRgba.v[4], t))

mixColors(start, end, ratio) ==
  MixOf(normaliseColor(start), normaliseColor(end),
        clamp(ratio, <<0, 1>>, <<1, 1>>))

(* p / q, q > 0, in lowest terms *)
Reduced(p, q) ==
  <<p \div Gcd(IF p < 0 THEN -p ELSE p, q),
    q \div Gcd(IF p < 0 THEN -p ELSE p, q)>>

(* range === 0 ? 0.5 : (score - minScore) / range, as <<p, q>> with q > 0.
   The three scores are finite numbers here. *)
HeatRatio(score, minScore, maxScore) ==
  IF maxScore.v - minScore.v = 0 THEN <<1, 2>>
  ELSE IF maxScore.v - minScore.v < 0
    THEN Reduced(minScore.v - score.v, minScore.v - maxScore.v)
  ELSE Reduced(score.v - minScore.v, maxScore.v - minScore.v)

(* mixColors(...) || theme.heatmapLow *)
Background(mixed, theme) == IF Truthy(mixed) THEN mixed ELSE theme.heatmapLow

(* The luminance of the background is a sum of powers of 2.4 that is not
   computed here: textColor is one of the two text colours of the theme, and
   the result is given for either. *)
computeHeatmapColor(score, minScore, maxScore, theme, textColor) ==
  IF ~IsFiniteNumber(score) THEN Null
  ELSE Obj([background |->
              Background(mixColors(theme.heatmapLow, theme.heatmapHigh,
                                   clamp(HeatRatio(score, minScore, maxScore),
                                         <<0, 1>>, <<1, 1>>)),
                         theme),
            text |-> textColor])

-----------------------------------------------------------------------------
(* Inputs of the heatmap colours *)

Hex(s) == Str(<<"#">> \o s)

(* '#f97316' and '#22d3ee', the defaults of the theme *)
Orange == Hex(<<"f", "9", "7", "3", "1", "6">>)
Cyan == Hex(<<"2", "2", "d", "3", "e", "e">>)
(* '#0f172a' and '#f8fafc' *)
TextDark == Hex(<<"0", "f", "1", "7", "2", "a">>)
TextLight == Hex(<<"f", "8", "f", "a", "f", "c">>)

Theme(low, high) ==
  [heatmapLow |-> low, heatmapHigh |-> high,
   heatmapTextDark |-> TextDark, heatmapTextLight |-> TextLight]

(* The default theme; short and long forms with alpha, '#FA08' and
   '#00aaffff'; the defaults the other way round; a colour of five digits. *)
ThemeValues ==
  {Theme(Orange, Cyan),
   Theme(Hex(<<"F", "A", "0", "8">>),
         Hex(<<"0", "0", "a", "a", "f", "f", "f", "f">>)),
   Theme(Cyan, Orange),
   Theme(Hex(<<"f", "9", "7", "3", "1">>), Cyan)}

(* -1, -0.5, 0, ... 4 *)
HeatScores == {Num(k * (Scale \div 2)) : k \in -2..8}

InitHeatmap ==
  /\ \E minScore \in HeatScores, maxScore \in HeatScores, theme \in ThemeValues :
       /\ minScore.v <= maxScore.v
       /\ \/ \E score \in HeatScores :
               input = [score |-> score, minScore |-> minScore,
                        maxScore |-> maxScore, theme |-> theme]
          \/ \E score \in {NaN, Inf(1), Inf(-1)} :
               input = [score |-> score, minScore |-> minScore,
                        maxScore |-> maxScore, theme |-> theme]
          \/ input = [score |-> SevenStr, minScore |-> minScore,
                      maxScore |-> maxScore, theme |-> theme]
          \/ input = [score |-> Null, minScore |-> minScore,
                      maxScore |-> maxScore, theme |-> theme]
  /\ ret = Undefined /\ pc = "ready"
  /\ NoPage

CallComputeHeatmapColor ==
  /\ pc = "ready"
  /\ \E textColor \in {input.theme.heatmapTextLight,
                        input.theme.heatmapTextDark} :
       ret' = computeHeatmapColor(input.score, input.minScore,
                                  input.maxScore, input.theme, textColor)
  /\ pc' = "computeHeatmapColor"
  /\ UNCHANGED input
  /\ UNCHANGED page

NextHeatmap == CallComputeHeatmapColor

SpecHeatmap == InitHeatmap /\ [][NextHeatmap]_vars

(* Inputs with missing and wrongly typed fields *)

(* A best bet at 1 PM, another at the same time, and a later one *)
MalformedBets ==
  {Obj([team |-> TeamX, time |-> OneOClockPm]),
   Obj([team |-> TeamY, line |-> Num(-3 * Scale), time |-> OneOClockPm]),
   Obj([team |-> TeamZ, time |-> HalfPastSevenPm])}

(* A null entry, a number in place of a player, a player with a name alone,
   players without a name, and whole players. *)
MalformedPlayerValues ==
  {Null, Num(5 * Scale), Obj([name |-> NameB])}
    \cup {Obj([best_bet |-> bet, picks |-> Arr(<<TeamPick(Jets, Null)>>)]) :
            bet \in MalformedBets}
    \cup {SchedulePlayer(NameA, bet) : bet \in MalformedBets}

RECURSIVE MalformedLists(_)
MalformedLists(n) ==
  IF n = 0 THEN {<<>>}
  ELSE MalformedLists(n - 1) \cup
       {Append(ps, p) : ps \in {qs \in MalformedLists(n - 1) : Len(qs) = n - 1},
                        p \in MalformedPlayerValues}

(* Weeks without a schedule or with a null for its only game, their
   players a list, a number or an object. *)
MalformedWeeks ==
  {Obj([name |-> Week1, schedule |-> sch, players |-> Arr(ps)]) :
     sch \in {Undefined, Arr(<<Null>>)}, ps \in MalformedLists(MaxPlayers)}
    \cup {Obj([name |-> Week1, players |-> Num(3 * Scale)]),
          Obj([name |-> Week1, players |-> Obj(<<>>)]),
          Obj([name |-> Week1, players |-> Null]),
          Obj([schedule |-> Arr(<<GameOne>>),
               players |-> Arr(<<Null>>)])}

InitMalformed ==
  /\ \/ \E w \in MalformedWeeks : input = [week |-> w, weeks |-> Arr(<<w>>)]
     \/ input = [week |-> Null, weeks |-> Arr(<<Null>>)]
  /\ ret = Undefined /\ pc = "ready"
  /\ NoPage

NextMalformed ==
  \/ CallBuildScheduleFromBestBets
  \/ CallRenderSchedule
  \/ CallAggregateTeamStats

SpecMalformed == InitMalformed /\ [][NextMalformed]_vars

(* The standings as both readers see them *)

(* A player without total_points and without picks, a week name, and a
   standings object: getWeeklyScore and computeLeaderboard read the same
   standings. *)
InitStandings ==
  /\ \E st \in LeaderboardStandings, name \in PlayerNames,
        weekName \in {Week1, Week2} :
       input = [player |-> Obj([name |-> name]), standings |-> st,
                weekName |-> weekName]
  /\ ret = Undefined /\ pc = "ready"
  /\ NoPage

NextStandings == CallGetWeeklyScore \/ CallComputeLeaderboard

SpecStandings == InitStandings /\ [][NextStandings]_vars

(* The dashboard: init, updateWeek and the renders of a week *)

(* A chart made by new Chart(...): its place in charts *)
Chart(id) == [t |-> "chart", v |-> id]

(* chart.destroy() on a held chart: if (handle) handle.destroy() *)
Destroy(made, handle) ==
  IF Truthy(handle) THEN [made EXCEPT ![handle.v].destroyed = 1] ELSE made

(* Mutant: the bar chart is left alone. *)
DestroyHeld_scatterOnly(made, scatter, bar) == Destroy(made, scatter)

(* if (scatterChart) scatterChart.destroy();
   if (barChart) barChart.destroy(); *)
DestroyHeld(made, scatter, bar) == Destroy(Destroy(made, scatter), bar)

(* if (handle) { handle.destroy(); handle = null; } *)
Released(handle) == IF Truthy(handle) THEN Null ELSE handle

IsNullishPlayer(player) == IsNullish(player)

(* for (const player of week.players || []) reads player.best_bet: a null
   or undefined player raises. *)
HasNullishPlayer(week) ==
  /\ Prop(week, "players").t = "arr"
  /\ \E i \in 1..Len(Prop(week, "players").v) :
       IsNullishPlayer(Prop(week, "players").v[i])

PlayersOf(week) ==
  IF Prop(week, "players").t = "arr" THEN Prop(week, "players").v ELSE <<>>

(* renderCharts on the page p; ready: both canvases are in the document
   and Chart is defined.  prepareScatterData raises before any chart is
   destroyed. *)
renderCharts(p, week, ready) ==
  IF ~ready
    THEN [p EXCEPT !.charts = DestroyHeld(p.charts, p.scatterChart,
                                          p.barChart),
                   !.scatterChart = Released(p.scatterChart),
                   !.barChart = Released(p.barChart)]
  ELSE IF HasNullishPlayer(week) THEN [p EXCEPT !.raised = TRUE]
  ELSE [p EXCEPT
          !.charts = DestroyHeld(p.charts, p.scatterChart, p.barChart)
                       \o <<[canvas |-> "scatter", destroyed |-> 0],
                            [canvas |-> "bar", destroyed |-> 0]>>,
          !.scatterChart = Chart(Len(p.charts) + 1),
          !.barChart = Chart(Len(p.charts) + 2)]

(* getWeeklyScore(player, standings, weekName) of every player *)
WeeklyScores(players, standings, weekName) ==
  [i \in 1..Len(players) |->
     getWeeklyScore(players[i], standings, weekName)]

(* The last of a set of places, 0 for none *)
LastOf(places) ==
  IF places = {} THEN 0 ELSE CHOOSE i \in places : \A j \in places : j <= i

ScoreAt(scores, i) == IF i = 0 THEN Undefined ELSE scores[i]

(* scoresByPlayer.get(name): the finite score set last under the name *)
ScoreOfName(players, scores, name) ==
  ScoreAt(scores, LastOf({i \in 1..Len(players) :
                            /\ Prop(players[i], "name") = name
                            /\ IsFiniteNumber(scores[i])}))

(* week.players.map((player, index) => ({ player, index })), with the score
   the comparator reads for the player *)
EntriesWithScores(players, scores) ==
  [i \in 1..Len(players) |->
     [player |-> players[i], index |-> i,
      score |-> ScoreOfName(players, scores, Prop(players[i], "name"))]]

TableEntries(players, standings, weekName) ==
  EntriesWithScores(players, WeeklyScores(players, standings, weekName))

(* The comparator of renderPlayers, for players whose names are strings *)
comparePlayers(a, b) ==
  IF IsFiniteNumber(a.score) /\ IsFiniteNumber(b.score)
    THEN IF a.score # b.score THEN b.score.v - a.score.v
         ELSE localeCompare(Prop(a.player, "name").v,
                            Prop(b.player, "name").v)
  ELSE IF IsFiniteNumber(a.score) THEN -1
  ELSE IF IsFiniteNumber(b.score) THEN 1
  ELSE a.index - b.index

RECURSIVE SortPlayers(_)
SortPlayers(entries) ==
  IF entries = <<>> THEN <<>>
  ELSE LET sorted == SortPlayers(SubSeq(entries, 1, Len(entries) - 1))
           x == entries[Len(entries)]
       IN InsertBefore(x, sorted,
                       {i \in 1..Len(sorted) :
                          comparePlayers(x, sorted[i]) < 0})

playersForTable(players, standings, weekName) ==
  SortPlayers(TableEntries(players, standings, weekName))

(* .map((entry) => entry.player) *)
EntryPlayers(sorted) == [i \in 1..Len(sorted) |-> sorted[i].player]

(* Mutant: the comparator sorts week.players itself. *)
playersAfterRender_inPlace(players, standings, weekName) ==
  EntryPlayers(playersForTable(players, standings, weekName))

(* week.players after renderPlayers: the comparator sorts the array that
   map() made, so week.players keeps its order. *)
playersAfterRender(players, standings, weekName) == players

(* The cells of a row of the players table: the name and the weekly score *)
PlayerRow(entry) ==
  [player |-> Prop(entry.player, "name"), weeklyScore |-> entry.score]

RowsOfEntries(sorted) == [i \in 1..Len(sorted) |-> PlayerRow(sorted[i])]

(* The rows renderPlayers appends when it returns *)
PlayerRows(players, standings, weekName) ==
  RowsOfEntries(playersForTable(players, standings, weekName))

(* dataset with the players of its i-th week replaced *)
WithPlayers(data, i, players) ==
  LET weeks == Prop(data, "weeks").v
      week == weeks[i]
      replaced == Obj([k \in DOMAIN week.v |->
                         IF k = "players" THEN Arr(players) ELSE week.v[k]])
  IN Obj([k \in DOMAIN data.v |->
            IF k = "weeks" THEN Arr([weeks EXCEPT ![i] = replaced])
            ELSE data.v[k]])

(* renderPlayers on the page p for the i-th week of the dataset.  The table
   is cleared first; renderSummary reads player.name of every player, so a
   null player raises after the table was cleared. *)
renderPlayers(p, i, week, standings, weekName) ==
  IF PlayersOf(week) = <<>> THEN [p EXCEPT !.playersTableBody = <<>>]
  ELSE IF HasNullishPlayer(week)
    THEN [p EXCEPT !.playersTableBody = <<>>, !.raised = TRUE]
  ELSE [p EXCEPT
          !.playersTableBody = PlayerRows(PlayersOf(week), standings,
                                          weekName),
          !.dataset = WithPlayers(p.dataset, i,
                        playersAfterRender(PlayersOf(week), standings,
                                           weekName))]

(* The entries of renderHeatmap: the players with a finite line and a finite
   score *)
HeatEntry(player, score) ==
  [player |-> Prop(player, "name"),
   line |-> normaliseLineValue(Prop(Prop(player, "best_bet"), "line")),
   score |-> score]

IsHeatEntry(entry) == IsFiniteNumber(entry.line) /\ IsFiniteNumber(entry.score)

EntriesOfScores(players, scores) ==
  SelectSeq([i \in 1..Len(players) |-> HeatEntry(players[i], scores[i])],
            IsHeatEntry)

HeatEntries(players, standings, weekName) ==
  EntriesOfScores(players, WeeklyScores(players, standings, weekName))

(* Array.from(new Set(lines)).sort((a, b) => a - b) *)
RECURSIVE SortedLines(_)
SortedLines(lines) ==
  IF lines = {} THEN <<>>
  ELSE LET least == CHOOSE x \in lines : \A y \in lines : x.v <= y.v
       IN <<least>> \o SortedLines(lines \ {least})

(* Array.from(new Set(names)).sort((a, b) => a.localeCompare(b)) *)
RECURSIVE SortedNames(_)
SortedNames(names) ==
  IF names = {} THEN <<>>
  ELSE LET first == CHOOSE x \in names :
                      \A y \in names : localeCompare(x.v, y.v) <= 0
       IN <<first>> \o SortedNames(names \ {first})

(* entries.find(entry => entry.player === player && entry.line === line):
   the score of the cell, null for an empty cell *)
HeatCell(entries, player, line) ==
  LET found == {i \in 1..Len(entries) :
                  entries[i].player = player /\ entries[i].line = line}
  IN IF found = {} THEN Null
     ELSE entries[CHOOSE i \in found : \A j \in found : i <= j].score

HeatRows(entries, lines, names) ==
  [r \in 1..Len(names) |->
     [player |-> names[r],
      cells |-> [c \in 1..Len(lines) |->
                   HeatCell(entries, names[r], lines[c])]]]

RowsOfHeatEntries(entries) ==
  HeatRows(entries,
           SortedLines({entries[i].line : i \in 1..Len(entries)}),
           SortedNames({entries[i].player : i \in 1..Len(entries)}))

(* The rows renderHeatmap appends: one per player, a cell per line *)
HeatmapRows(players, standings, weekName) ==
  RowsOfHeatEntries(HeatEntries(players, standings, weekName))

(* renderHeatmap on the page p: the body is cleared first, and a null
   player raises when player.best_bet is read. *)
renderHeatmap(p, week, standings, weekName) ==
  IF HasNullishPlayer(week)
    THEN [p EXCEPT !.heatmapTableBody = <<>>, !.raised = TRUE]
  ELSE [p EXCEPT !.heatmapTableBody =
                    HeatmapRows(PlayersOf(week), standings, weekName)]

(* renderSchedule on the page p: the body is cleared first; the schedule
   built from the best bets raises for a null player (the players of a
   dataset here are named objects or null). *)
renderScheduleRows(p, week) ==
  IF renderScheduleMustRaise(week)
    THEN [p EXCEPT !.scheduleTableBody = <<>>, !.raised = TRUE]
  ELSE [p EXCEPT !.scheduleTableBody = renderSchedule(week).games]

(* dataset.weeks.find((entry) => entry.name === weekName): its place in
   the weeks, 0 when no week has the name *)
FindWeek(data, weekName) ==
  LET weeks == Prop(data, "weeks").v
      found == {i \in 1..Len(weeks) : Prop(weeks[i], "name") = weekName}
  IN IF found = {} THEN 0
     ELSE CHOOSE i \in found : \A j \in found : i <= j

(* The renders of updateWeek in their order, each on the page the one
   before it left; a render that raises ends the call. *)
ThenHeatmap(p, week, standings, weekName) ==
  IF p.raised THEN p ELSE renderHeatmap(p, week, standings, weekName)

ThenCharts(p, week, standings, weekName, ready) ==
  IF p.raised THEN p
  ELSE ThenHeatmap(renderCharts(p, week, ready), week, standings, weekName)

ThenPlayers(p, i, week, standings, weekName, ready) ==
  IF p.raised THEN p
  ELSE ThenCharts(renderPlayers(p, i, week, standings, weekName),
                  week, standings, weekName, ready)

RenderWeek(p, i, week, standings, weekName, ready) ==
  ThenPlayers(renderScheduleRows(p, week), i, week, standings, weekName,
              ready)

RenderWeekAt(p, i, weekName, ready) ==
  RenderWeek(p, i, Prop(p.dataset, "weeks").v[i],
             Prop(p.dataset, "standings"), weekName, ready)

(* updateWeek(weekName) on the page p *)
updateWeek(p, weekName, ready) ==
  IF ~Truthy(p.dataset) \/ ~Truthy(Prop(p.dataset, "weeks")) THEN p
  ELSE IF FindWeek(p.dataset, weekName) = 0 THEN p
  ELSE RenderWeekAt(p, FindWeek(p.dataset, weekName), weekName, ready)

(* week.players?.length || week.schedule?.length *)
IsAvailable(week) ==
  \/ Prop(week, "players").t = "arr" /\ Prop(week, "players").v # <<>>
  \/ Prop(week, "schedule").t = "arr" /\ Prop(week, "schedule").v # <<>>

availableWeeks(weeks) == SelectSeq(weeks, IsAvailable)

(* availableWeeks[0]?.name || weeks[0]?.name || null *)
defaultWeekName(weeks) ==
  IF availableWeeks(weeks) # <<>>
       /\ Truthy(Prop(availableWeeks(weeks)[1], "name"))
    THEN Prop(availableWeeks(weeks)[1], "name")
  ELSE IF weeks # <<>> /\ Truthy(Prop(weeks[1], "name"))
    THEN Prop(weeks[1], "name")
  ELSE Null

(* The value of the week select after init filled it *)
InitialSelect(weeks) ==
  IF weeks = <<>> THEN Str(<<>>)
  ELSE IF availableWeeks(weeks) # <<>>
    THEN Prop(availableWeeks(weeks)[1], "name")
  ELSE IF Truthy(defaultWeekName(weeks)) THEN defaultWeekName(weeks)
  ELSE Str(<<>>)

(* The names the week select offers *)
WeekSelectOptions(weeks) ==
  IF availableWeeks(weeks) # <<>>
    THEN {Prop(availableWeeks(weeks)[i], "name") :
            i \in 1..Len(availableWeeks(weeks))}
  ELSE IF Truthy(defaultWeekName(weeks)) THEN {defaultWeekName(weeks)}
  ELSE {}

(* The values the team-week select offers: '' for all weeks, and the names
   of the available weeks, or of all weeks when none is available *)
TeamSelectOptions(weeks) ==
  LET weeksForSelect == IF availableWeeks(weeks) # <<>>
                          THEN availableWeeks(weeks) ELSE weeks
  IN {Str(<<>>)} \cup
     {Prop(weeksForSelect[i], "name") :
        i \in {j \in 1..Len(weeksForSelect) :
                 Truthy(Prop(weeksForSelect[j], "name"))}}

(* value || null *)
OrNull(value) == IF Truthy(value) THEN value ELSE Null

(* The rows renderTeamStats puts in the two team tables *)
BothTables(tables) ==
  [teamBets |-> tables.teamBets, teamPoints |-> tables.teamPoints]

TeamRows(weeks, selected) ==
  BothTables(renderTeamStats(Arr(weeks), OrNull(selected)))

-----------------------------------------------------------------------------
(* Inputs of the dashboard *)

Scored(name, bestBet, total, picks) ==
  Obj([name |-> name, best_bet |-> bestBet, total_points |-> total,
       picks |-> Arr(picks)])

BetOn(team, line) ==
  Obj([team |-> team, line |-> line, time |-> OneOClockPm])

(* A scores 3, B scores 7 and C has no score: the table lists B, A, C. *)
PlayersRanked ==
  <<Scored(NameA, BetOn(TeamX, Num(-3 * Scale)), Num(3 * Scale),
           <<TeamPick(Jets, Num(3 * Scale))>>),
    Scored(NameB, BetOn(TeamY, Num(2 * Scale + Scale \div 2)),
           Num(7 * Scale), <<TeamPick(Bills, Num(7 * Scale))>>),
    Obj([name |-> NameC])>>

(* B and A score 3 each, C is scored by the standings alone. *)
PlayersTied ==
  <<Scored(NameB, BetOn(TeamZ, Num(-3 * Scale)), Num(3 * Scale),
           <<TeamPick(Bills, Num(3 * Scale))>>),
    Scored(NameA, BetOn(TeamX, Num(7 * Scale + Scale \div 2)),
           Num(3 * Scale), <<TeamPick(Jets, Null)>>),
    SchedulePlayer(NameC, BetOn(TeamY, Num(-3 * Scale)))>>

PlayersWithNull ==
  <<Scored(NameA, BetOn(TeamX, Num(-3 * Scale)), Num(3 * Scale),
           <<TeamPick(Jets, Num(3 * Scale))>>),
    Null>>

(* What a week holds besides its name: games and ranked players; no game
   and tied players; no game and a null player; a game and a null player;
   nothing. *)
WeekContents ==
  {[schedule |-> Arr(<<GameOne>>), players |-> Arr(PlayersRanked)],
   [schedule |-> Arr(<<>>), players |-> Arr(PlayersTied)],
   [schedule |-> Arr(<<>>), players |-> Arr(PlayersWithNull)],
   [schedule |-> Arr(<<GameTwo>>), players |-> Arr(PlayersWithNull)],
   [schedule |-> Arr(<<>>), players |-> Arr(<<>>)]}

NamedWeek(name, contents) ==
  Obj([name |-> name, schedule |-> contents.schedule,
       players |-> contents.players])

(* No week, a week "W1", or the weeks "W1" and "W2" *)
DashboardWeeks ==
  {<<>>} \cup {<<NamedWeek(Week1, c)>> : c \in WeekContents}
         \cup {<<NamedWeek(Week1, c), NamedWeek(Week2, d)>> :
                 c \in WeekContents, d \in WeekContents}

(* The standings score C alone: 4 in "W1" and 3 in "W2". *)
DashboardStandings ==
  OrderedObj(<< <<NameC.v, OrderedObj(<< <<Week1.v, Num(4 * Scale)>>,
                                         <<Week2.v, Num(3 * Scale)>> >>)>> >>)

DatasetValues ==
  {Obj([weeks |-> Arr(ws), standings |-> DashboardStandings]) :
     ws \in DashboardWeeks}

(* The names updateWeek is called with: those of the weeks, and one that no
   week has *)
CalledNames == {Week1, Week2, Week3}

-----------------------------------------------------------------------------
(* The dashboard as a state machine *)

(* The page as the record the renders work on *)
Page ==
  [dataset |-> dataset, scheduleTableBody |-> scheduleTableBody,
   playersTableBody |-> playersTableBody,
   heatmapTableBody |-> heatmapTableBody, scatterChart |-> scatterChart,
   barChart |-> barChart, charts |-> charts, raised |-> FALSE]

(* The variables of the renders take the values of the record p. *)
Becomes(p) ==
  /\ dataset' = p.dataset
  /\ scheduleTableBody' = p.scheduleTableBody
  /\ playersTableBody' = p.playersTableBody
  /\ heatmapTableBody' = p.heatmapTableBody
  /\ scatterChart' = p.scatterChart
  /\ barChart' = p.barChart
  /\ charts' = p.charts
  /\ ret' = IF p.raised THEN TypeError ELSE Undefined

(* What a handler was called with: a week name, or null *)
Event(weekName) == [weekName |-> weekName]

(* No more than MaxRenders renders make charts. *)
MayRender == Len(charts) < 2 * MaxRenders

WeeksOf(data) ==
  IF Prop(data, "weeks").t = "arr" THEN Prop(data, "weeks").v ELSE <<>>

(* init() with the dataset d fetched.  The listeners of the two selects are
   added before the first updateWeek, the one of the theme after it; when
   updateWeek raises, the handler of init().catch empties the team tables
   and disables the team-week select.  Without weeks the week select gets
   no listener and the team-week select is disabled. *)
InitialWeek(weeks) ==
  IF Truthy(InitialSelect(weeks)) THEN InitialSelect(weeks)
  ELSE defaultWeekName(weeks)

(* The page after the first updateWeek of init *)
FirstUpdate(p, initialWeek, ready) ==
  IF Truthy(initialWeek) THEN updateWeek(p, initialWeek, ready) ELSE p

InitEnds(weeks, p, initialWeek, ready) ==
  /\ Becomes(p)
  /\ weekSelect' = InitialSelect(weeks)
  /\ teamTables' = IF p.raised THEN [teamBets |-> <<>>, teamPoints |-> <<>>]
                   ELSE TeamRows(weeks, Str(<<>>))
  /\ listeners' = IF weeks = <<>> THEN {"theme"}
                  ELSE IF p.raised THEN {"weekSelect"}
                  ELSE {"teamWeekSelect", "weekSelect", "theme"}
  /\ input' = Event(OrNull(initialWeek))
  /\ pc' = "init"

RunInit ==
  /\ pc = "ready"
  /\ dataset = Undefined
  /\ \E d \in DatasetValues, ready \in BOOLEAN :
       InitEnds(WeeksOf(d),
                FirstUpdate([Page EXCEPT !.dataset = d],
                            InitialWeek(WeeksOf(d)), ready),
                InitialWeek(WeeksOf(d)), ready)

(* updateWeek(weekName), called with any name at any time *)
CallUpdateWeek ==
  /\ MayRender
  /\ \E weekName \in CalledNames, ready \in BOOLEAN :
       /\ Becomes(updateWeek(Page, weekName, ready))
       /\ input' = Event(weekName)
  /\ pc' = "updateWeek"
  /\ UNCHANGED <<weekSelect, teamTables, listeners>>

(* A change of the week select to one of its options *)
ChangeWeekSelect ==
  /\ MayRender
  /\ "weekSelect" \in listeners
  /\ \E weekName \in WeekSelectOptions(WeeksOf(dataset)),
        ready \in BOOLEAN :
       /\ weekSelect' = weekName
       /\ Becomes(updateWeek(Page, weekName, ready))
       /\ input' = Event(weekName)
  /\ pc' = "weekSelect"
  /\ UNCHANGED <<teamTables, listeners>>

(* A change of the team-week select to one of its options *)
ChangeTeamWeekSelect ==
  /\ "teamWeekSelect" \in listeners
  /\ \E selected \in TeamSelectOptions(WeeksOf(dataset)) :
       /\ teamTables' = TeamRows(WeeksOf(dataset), selected)
       /\ input' = Event(OrNull(selected))
  /\ pc' = "teamWeekSelect"
  /\ ret' = Undefined
  /\ UNCHANGED <<dataset, weekSelect, scheduleTableBody, playersTableBody,
                 heatmapTableBody, scatterChart, barChart, charts, listeners>>

(* refreshForTheme: the colour scheme changed *)
ActiveWeek ==
  IF Truthy(weekSelect) THEN weekSelect
  ELSE defaultWeekName(WeeksOf(dataset))

RefreshForTheme ==
  /\ MayRender
  /\ "theme" \in listeners
  /\ IF Truthy(dataset) /\ Truthy(ActiveWeek)
       THEN \E ready \in BOOLEAN :
              Becomes(updateWeek(Page, ActiveWeek, ready))
     ELSE Becomes(Page)
  /\ input' = Event(OrNull(ActiveWeek))
  /\ pc' = "refreshForTheme"
  /\ UNCHANGED <<weekSelect, teamTables, listeners>>

(* renderCharts(week, standings, weekName) for a week of the dataset *)
CallRenderCharts ==
  /\ MayRender
  /\ \E i \in 1..Len(WeeksOf(dataset)), ready \in BOOLEAN :
       /\ Becomes(renderCharts(Page, WeeksOf(dataset)[i], ready))
       /\ input' = Event(Prop(WeeksOf(dataset)[i], "name"))
  /\ pc' = "renderCharts"
  /\ UNCHANGED <<weekSelect, teamTables, listeners>>

InitDashboard ==
  /\ input = Event(Null)
  /\ ret = Undefined
  /\ pc = "ready"
  /\ NoPage

NextDashboard ==
  \/ RunInit
  \/ CallUpdateWeek
  \/ ChangeWeekSelect
  \/ ChangeTeamWeekSelect
  \/ RefreshForTheme
  \/ CallRenderCharts

SpecDashboard == InitDashboard /\ [][NextDashboard]_vars

-----------------------------------------------------------------------------
(* Score resolution: what the properties refer to *)

Returned(f) == pc = f

TotalPoints == Prop(input.player, "total_points")
PlayerPicks == Prop(input.player, "picks")

(* standings[player.name][weekName], undefined where a step of the lookup
   has nothing to read *)
StandingsLookup ==
  IF IsNullish(input.standings) THEN Undefined
  ELSE PropAt(PropAt(input.standings, Prop(input.player, "name")),
              input.weekName)

HasFiniteAwarded(pick) == parseScoreValue(Prop(pick, "awarded_points")) # Null
IsLoss(pick) == PickResult(pick) = loss
IsUngraded(pick) ==
  Prop(pick, "result") = Undefined \/ PickResult(pick) = pending

RECURSIVE SumAwarded(_)
SumAwarded(ps) ==
  IF ps = <<>> THEN 0
  ELSE (IF HasFiniteAwarded(Head(ps))
          THEN parseScoreValue(Prop(Head(ps), "awarded_points")).v
          ELSE 0) + SumAwarded(Tail(ps))

(* The score the picks stand for: none without a pick, none when a pick
   without awarded points is not a loss, else the sum of the awarded points. *)
ScoreOfPicks(picks) ==
  IF picks.t # "arr" THEN Null
  ELSE LET real == SelectSeq(picks.v, Truthy)
       IN IF real = <<>> THEN Null
          ELSE IF \E i \in 1..Len(real) :
                    ~HasFiniteAwarded(real[i]) /\ ~IsLoss(real[i])
            THEN Null
          ELSE Num(SumAwarded(real))

(* C1: getWeeklyScore returns the coerced player.total_points whenever it
   coerces to a finite number (a number, 0 included, or a numeric string),
   whatever standings and player.picks hold: 14 gives 14, 0 gives 0 and
   "9 pts" gives 9. *)
C1_TotalPointsWins ==
  (Returned("getWeeklyScore") /\ Truthy(input.player)) =>
    /\ parseScoreValue(TotalPoints) # Null => ret = parseScoreValue(TotalPoints)
    /\ TotalPoints = Num(14 * Scale) => ret = Num(14 * Scale)
    /\ TotalPoints = Num(0) => ret = Num(0)
    /\ TotalPoints = NinePts => ret = Num(9 * Scale)

(* C1 witness: a total of 0 is returned although the standings hold 7 and
   the picks add up to 3. *)
C1_Witness ==
  /\ Returned("getWeeklyScore")
  /\ TotalPoints = Num(0)
  /\ StandingsLookup = Num(7 * Scale)
  /\ ScoreOfPicks(PlayerPicks) = Num(3 * Scale)
  /\ ret = Num(0)

(* C2: when total_points is absent or does not coerce to a finite number and
   standings[player.name][weekName] coerces to a finite number (a number or
   a numeric string such as "7"), getWeeklyScore returns that standings
   value, whatever player.picks holds. *)
C2_StandingsSecond ==
  (/\ Returned("getWeeklyScore")
   /\ Truthy(input.player)
   /\ parseScoreValue(TotalPoints) = Null
   /\ parseScoreValue(StandingsLookup) # Null) =>
    /\ ret = parseScoreValue(StandingsLookup)
    /\ StandingsLookup \in {SevenStr, Num(7 * Scale)} => ret = Num(7 * Scale)

(* C2 witness: no total, the standings hold the string "7", the picks add up
   to 3, and 7 is returned. *)
C2_Witness ==
  /\ Returned("getWeeklyScore")
  /\ TotalPoints = Undefined
  /\ StandingsLookup = SevenStr
  /\ ScoreOfPicks(PlayerPicks) = Num(3 * Scale)
  /\ ret = Num(7 * Scale)

(* C3: when neither total_points nor the standings lookup yields a finite
   number (standings absent or without an entry for the player included),
   getWeeklyScore returns the score recomputed from player.picks. *)
C3_PicksLast ==
  (/\ Returned("getWeeklyScore")
   /\ Truthy(input.player)
   /\ parseScoreValue(TotalPoints) = Null
   /\ parseScoreValue(StandingsLookup) = Null) =>
    ret = ScoreOfPicks(PlayerPicks)

(* C3 witness: no total and no standings at all, and the picks' 3 + 2 is
   returned. *)
C3_Witness ==
  /\ Returned("getWeeklyScore")
  /\ TotalPoints = Undefined
  /\ input.standings = Undefined
  /\ PlayerPicks = Arr(<<Pick(Num(3 * Scale), Win), Pick(TwoStr, Undefined)>>)
  /\ ret = Num(5 * Scale)

(* C4: in the pick recomputation, one pick without finite awarded_points
   whose result is absent or "pending" makes the weekly score null, wherever
   it stands in the list and whatever the other picks contribute. *)
C4_UngradedBlocks ==
  LET blocked ==
        /\ PlayerPicks.t = "arr"
        /\ \E i \in 1..Len(PlayerPicks.v) :
             /\ Truthy(PlayerPicks.v[i])
             /\ ~HasFiniteAwarded(PlayerPicks.v[i])
             /\ IsUngraded(PlayerPicks.v[i])
  IN /\ (Returned("computeScoreFromPicks") /\ blocked) => ret = Null
     /\ (/\ Returned("getWeeklyScore")
         /\ Truthy(input.player)
         /\ parseScoreValue(TotalPoints) = Null
         /\ parseScoreValue(StandingsLookup) = Null
         /\ blocked) => ret = Null

(* C4 witness: a graded pick worth 3 followed by a pending one gives null. *)
C4_Witness ==
  /\ Returned("computeScoreFromPicks")
  /\ PlayerPicks = Arr(<<Pick(Num(3 * Scale), Win), Pick(Undefined, Str(pending))>>)
  /\ ret = Null

(* C5: in the pick recomputation, when every pick has finite awarded_points
   or the result "loss", the score is the sum of the awarded points present
   (a loss without them adds 0, so losses alone give 0, not null); an absent
   or empty pick list gives null. *)
C5_SumOfAwarded ==
  Returned("computeScoreFromPicks") =>
    /\ (/\ PlayerPicks.t = "arr"
        /\ PlayerPicks.v # <<>>
        /\ \A i \in 1..Len(PlayerPicks.v) :
             /\ Truthy(PlayerPicks.v[i])
             /\ HasFiniteAwarded(PlayerPicks.v[i]) \/ IsLoss(PlayerPicks.v[i]))
         => ret = Num(SumAwarded(PlayerPicks.v))
    /\ (PlayerPicks = Undefined \/ PlayerPicks = Arr(<<>>)) => ret = Null

(* C5 witness: a list of two losses gives 0. *)
C5_Witness ==
  /\ Returned("computeScoreFromPicks")
  /\ PlayerPicks = Arr(<<Pick(Undefined, Str(loss)), Pick(Undefined, LossShout)>>)
  /\ ret = Num(0)

(* C6: every non-null result of getWeeklyScore is a finite number, the value
   of the first of total_points, standings, picks that yields one; it is never
   a combination of sources and it is null only when all three fail. *)
C6_SingleSource ==
  Returned("getWeeklyScore") =>
    LET fromPlayer == IF Truthy(input.player)
                        THEN parseScoreValue(TotalPoints) ELSE Null
        fromStandings == IF Truthy(input.player)
                           THEN parseScoreValue(StandingsLookup) ELSE Null
        fromPicks == IF Truthy(input.player)
                       THEN ScoreOfPicks(PlayerPicks) ELSE Null
    IN /\ ret # Null => IsFiniteNumber(ret)
       /\ ret = (IF fromPlayer # Null THEN fromPlayer
                 ELSE IF fromStandings # Null THEN fromStandings
                 ELSE fromPicks)
       /\ ret = Null <=>
            (fromPlayer = Null /\ fromStandings = Null /\ fromPicks = Null)

(* C6 witness: no total, the standings hold 7 and the picks add up to 3: the
   result is 7, not 10. *)
C6_Witness ==
  /\ Returned("getWeeklyScore")
  /\ parseScoreValue(TotalPoints) = Null
  /\ StandingsLookup = Num(7 * Scale)
  /\ ScoreOfPicks(PlayerPicks) = Num(3 * Scale)
  /\ ret = Num(7 * Scale)

(* A result that is a word other than "loss" and "pending" *)
IsOtherResult(pick) ==
  /\ IsString(Prop(pick, "result"))
  /\ PickResult(pick) \notin {<<>>, pending, loss}

(* C28: in the pick recomputation a pick without finite awarded_points whose
   result, trimmed and lower-cased, is anything but "loss" ("win" and
   unknown words included) makes the whole score null, as a pending pick
   does; a score is returned only when every such pick is a loss. *)
C28_OnlyLossContinues ==
  (Returned("computeScoreFromPicks") /\ PlayerPicks.t = "arr") =>
    /\ (\E i \in 1..Len(PlayerPicks.v) :
          /\ Truthy(PlayerPicks.v[i])
          /\ ~HasFiniteAwarded(PlayerPicks.v[i])
          /\ IsOtherResult(PlayerPicks.v[i])) => ret = Null
    /\ ret # Null =>
         \A i \in 1..Len(PlayerPicks.v) :
           (Truthy(PlayerPicks.v[i]) /\ ~HasFiniteAwarded(PlayerPicks.v[i]))
             => /\ IsString(Prop(PlayerPicks.v[i], "result"))
                /\ ToLowerCase(Trim(Prop(PlayerPicks.v[i], "result").v)) = loss

(* C28 witness: a pick worth 3 followed by a "Push" without points gives
   null, and so does one followed by a "win". *)
C28_Witness ==
  /\ Returned("computeScoreFromPicks")
  /\ PlayerPicks \in {Arr(<<Pick(Num(3 * Scale), Win), Pick(Undefined, Push)>>),
                      Arr(<<Pick(Num(3 * Scale), Win), Pick(Undefined, Win)>>)}
  /\ ret = Null

-----------------------------------------------------------------------------
(* Line normalisation: what the properties refer to *)

Line == input.line

(* n units rounded to the nearest thousandth, away from zero on a tie *)
RoundToThousandth(n) ==
  LET mag == IF n < 0 THEN -n ELSE n
      rounded == ((mag + (Milli \div 2)) \div Milli) * Milli
  IN IF n < 0 THEN -rounded ELSE rounded

HasAtMost3Decimals(x) == IsFiniteNumber(x) /\ x.v % Milli = 0

(* The text of a string line as it is read: spaces collapsed and trimmed,
   unicode minus and dashes replaced by '-' *)
LineText == NormalisedLine(Line)

EndsInGlyph ==
  IsString(Line) /\ LineText # <<>> /\ LineText[Len(LineText)] \in FractionGlyphs

(* The text before the final glyph, parsed; 0 when it does not parse *)
GlyphBase ==
  LET parsed == parseFloat(SubSeq(LineText, 1, Len(LineText) - 1))
  IN IF parsed = NaN THEN Num(0) ELSE parsed

(* The glyph's value with the sign of the text's leading sign *)
SignedGlyph ==
  (IF Head(LineText) = "-" THEN -1 ELSE 1)
    * FRACTION_VALUES[LineText[Len(LineText)]]

MinusThreeHalf == Str(<<"uminus", "3", "half">>)
ThreeHalf == Str(<<"3", "half">>)
Half == Str(<<"half">>)

(* A text starts with something parseFloat reads as a number *)
HasNumericPrefix(text) ==
  LET u == IF text # <<>> /\ Head(text) \in {"+", "-"} THEN Tail(text) ELSE text
  IN /\ u # <<>>
     /\ \/ Head(u) \in DigitSet
        \/ Head(u) = "Infinity"
        \/ Head(u) = "." /\ Len(u) >= 2 /\ u[2] \in DigitSet

(* Neither a finite number nor a parseable string *)
Unparseable ==
  /\ ~IsFiniteNumber(Line)
  /\ \/ ~IsString(Line)
     \/ LineText = <<>>
     \/ ~HasNumericPrefix(LineText) /\ ~EndsInGlyph

(* C7 as stated: every non-null value returned by normaliseLineValue is a
   finite number with at most 3 decimal digits, for every input, be it a
   number or a string. *)
C7_Original ==
  (Returned("normaliseLineValue") /\ ret # Null) => HasAtMost3Decimals(ret)

(* C7 as amended: every non-null value returned by normaliseLineValue is a
   finite number, and it has at most 3 decimal digits when the input is a
   string; a finite number input comes back unchanged, with the precision it
   came with. *)
C7_StringLinesCanonical ==
  (Returned("normaliseLineValue") /\ ret # Null) =>
    /\ IsFiniteNumber(ret)
    /\ IsString(Line) => HasAtMost3Decimals(ret)

(* C7 witness: the string "1.2346" gives 1.235. *)
C7_Witness ==
  /\ Returned("normaliseLineValue")
  /\ Line = Str(<<"1", ".", "2", "3", "4", "6">>)
  /\ ret = Num(1235 * Milli)

(* C8: normaliseLineValue returns every finite number input unchanged. *)
C8_NumbersUnchanged ==
  (Returned("normaliseLineValue") /\ IsFiniteNumber(Line)) => ret = Line

(* C8 witness: a number with more than 3 decimals comes back as it is. *)
C8_Witness ==
  /\ Returned("normaliseLineValue")
  /\ Line = Num(Scale + 1)
  /\ ret = Num(Scale + 1)

(* C9 as stated: for a string ending in a fraction glyph, normaliseLineValue
   returns the numeric base (0 when the rest does not parse) plus the glyph's
   value carrying the leading sign; stated here for the finite bases only. *)
C9_Original ==
  (Returned("normaliseLineValue") /\ EndsInGlyph /\ IsFiniteNumber(GlyphBase)) =>
    ret = Num(GlyphBase.v + SignedGlyph)

(* C9 as amended: for a string ending in a fraction glyph, normaliseLineValue
   returns the numeric base (0 when the rest does not parse) plus the glyph's
   value carrying the leading sign (after unicode minus and dashes became
   '-'; positive without a leading '-'), rounded to 3 decimal places, and
   null when the base is infinite; "-3 1/2" written with a unicode minus
   gives -3.5, "3 1/2" gives 3.5 and "1/2" alone gives 0.5. *)
C9_SignedFraction ==
  (Returned("normaliseLineValue") /\ EndsInGlyph) =>
    /\ ret = (IF IsFiniteNumber(GlyphBase)
                THEN Num(RoundToThousandth(GlyphBase.v + SignedGlyph))
                ELSE Null)
    /\ Line = MinusThreeHalf => ret = Num(-3500 * Milli)
    /\ Line = ThreeHalf => ret = Num(3500 * Milli)
    /\ Line = Half => ret = Num(500 * Milli)

(* C9 witness: unicode minus, 3 and the glyph for a half give -3.5. *)
C9_Witness ==
  /\ Returned("normaliseLineValue")
  /\ Line = MinusThreeHalf
  /\ ret = Num(-3500 * Milli)

(* C10: normaliseLineValue returns null (and so does not raise) for every
   input that is neither a finite number nor a parseable string: undefined,
   null, NaN, the infinities, booleans, objects, the empty string, a string
   of white space, and a string such as "abc" with no numeric prefix and no
   trailing fraction glyph. *)
C10_UnparseableIsNull ==
  Returned("normaliseLineValue") =>
    /\ Unparseable => ret = Null
    /\ Line \in {Undefined, Null, NaN, Inf(1), Inf(-1), Bool(TRUE), Bool(FALSE),
                 Obj(<<>>), Arr(<<>>), Empty, Str(<<"sp">>),
                 Str(<<"sp", "nbsp">>), Abc} => ret = Null

(* C10 witness: "abc" gives null. *)
C10_Witness ==
  /\ Returned("normaliseLineValue")
  /\ Line = Abc
  /\ ret = Null

-----------------------------------------------------------------------------
(* Line formatting: what the properties refer to *)

(* The first, second and third decimal of t thousandths, without the
   trailing zeros; nothing at all when there are none *)
DecimalsOf(t) ==
  LET d1 == Digits[((t \div 100) % 10) + 1]
      d2 == Digits[((t \div 10) % 10) + 1]
      d3 == Digits[(t % 10) + 1]
  IN IF t % 1000 = 0 THEN <<>>
     ELSE IF t % 100 = 0 THEN <<".", d1>>
     ELSE IF t % 10 = 0 THEN <<".", d1, d2>>
     ELSE <<".", d1, d2, d3>>

(* n units rendered with at most 3 decimals: sign, all integer digits, and
   the decimals that are left after the trailing zeros *)
ExpectedDisplay(n) ==
  LET rounded == RoundToThousandth(n) \div Milli
      t == IF rounded < 0 THEN -rounded ELSE rounded
  IN (IF n > 0 THEN <<"+">> ELSE IF n < 0 THEN <<"-">> ELSE <<>>)
       \o DigitsOf(t \div 1000) \o DecimalsOf(t)

(* C11: round trip: for every finite number x with at most 3 decimal digits
   (negative, zero, positive), normaliseLineValue(formatLine(x)) = x and
   formatLine(formatLine(x)) = formatLine(x). *)
C11_RoundTrip ==
  (IsFiniteNumber(Line) /\ HasAtMost3Decimals(Line)) =>
    /\ Returned("normaliseLineValue(formatLine)") => ret = Line
    /\ Returned("formatLine(formatLine)") => ret = formatLine(Line)

(* C11 witness: -7.5 is formatted and normalised back to -7.5. *)
C11_Witness ==
  /\ Returned("normaliseLineValue(formatLine)")
  /\ Line = Num(-7500 * Milli)
  /\ ret = Num(-7500 * Milli)

(* C12: for every input that normalises to a number n, formatLine returns n
   rendered with at most 3 decimals, trailing zeros and a bare decimal point
   removed, every integer digit kept (10 gives "+10", 0 gives "0"), with a
   leading '+' exactly when n > 0. *)
C12_Display ==
  (Returned("formatLine") /\ normaliseLineValue(Line) # Null) =>
    /\ ret = Str(ExpectedDisplay(normaliseLineValue(Line).v))
    /\ (ret.v # <<>> /\ Head(ret.v) = "+") <=> normaliseLineValue(Line).v > 0
    /\ Line = Num(10 * Scale) => ret = Str(<<"+", "1", "0">>)
    /\ Line = Num(0) => ret = Str(<<"0">>)

(* C12 witness: 10 is displayed as "+10". *)
C12_Witness ==
  /\ Returned("formatLine")
  /\ Line = Num(10 * Scale)
  /\ ret = Str(<<"+", "1", "0">>)

(* C13: formatLine returns a string for every input: when the normalisation
   fails, the em-dash placeholder for null, undefined or the empty string,
   and otherwise the literal input, which is a string. *)
C13_AlwaysString ==
  Returned("formatLine") =>
    /\ IsString(ret)
    /\ normaliseLineValue(Line) = Null =>
         ret = (IF IsNullish(Line) \/ (IsString(Line) /\ Line.v = <<>>)
                  THEN EmDash ELSE Line)

-----------------------------------------------------------------------------
(* Time sort key: properties *)

TimeValue == input.value

IsPm(suffix) == \E i \in 1..Len(suffix) : ToLowerChar(suffix[i]) = "p"

(* Minutes since midnight of the 12-hour clock time h[:mm] am|pm: 12 am is
   the first hour of the day and 12 pm the thirteenth. *)
MinutesOfDay(h, mm, suffix) ==
  LET hour24 == IF IsPm(suffix) THEN (IF h = 12 THEN 12 ELSE h + 12)
                ELSE (IF h = 12 THEN 0 ELSE h)
  IN hour24 * 60 + IntOfDigits(mm)

(* A string of letters and spaces only: no date, no clock time, no number. *)
IsWordsOnly(value) ==
  /\ IsString(value)
  /\ \A i \in 1..Len(value.v) :
       value.v[i] \in (WhiteSpace \cup {UpperCase[j] : j \in 1..Len(UpperCase)}
                         \cup {LowerCase[j] : j \in 1..Len(LowerCase)})

(* C14: the sort key of an absent or unparseable time is +Infinity, and the
   key of a 12-hour clock string h[:mm] am|pm, h in 1..12, is
   ((h mod 12) + 12 if pm) * 60 + mm, which is the number of minutes since
   midnight: it lies in 0..1439 and grows with the time of day, 12am being 0
   and 12pm 720. *)
C14_TimeSortKey ==
  Returned("parseTime") =>
    /\ (IsNullish(TimeValue) \/ IsWordsOnly(TimeValue)) => ret = Inf(1)
    /\ \A h \in 1..12, mm \in ClockMinutes, sfx \in ClockSuffixes :
         TimeValue = Str(ClockString(h, mm, sfx)) =>
           /\ ret = Num((((h % 12) + (IF IsPm(sfx) THEN 12 ELSE 0)) * 60
                          + IntOfDigits(mm)) * Scale)
           /\ ret = Num(MinutesOfDay(h, mm, sfx) * Scale)
           /\ ret.v \in {m * Scale : m \in 0..1439}
    /\ TimeValue = Str(<<"1", "2", "a", "m">>) => ret = Num(0)
    /\ TimeValue = Str(<<"1", "2", "p", "m">>) => ret = Num(720 * Scale)

(* C14 witness: the key of "12am" has been computed and is 0. *)
C14_Witness ==
  /\ Returned("parseTime")
  /\ TimeValue = Str(<<"1", "2", "a", "m">>)
  /\ ret = Num(0)

-----------------------------------------------------------------------------
(* Schedule: properties *)

Week == input.week

(* week.schedule without its null entries; empty when it is absent *)
OfficialGames ==
  IF Prop(Week, "schedule").t = "arr"
    THEN SelectSeq(Prop(Week, "schedule").v, LAMBDA game : game.t # "null")
    ELSE <<>>

(* An entry made from a best bet names its player. *)
IsSynthesized(game) == Prop(game, "player").t # "undefined"

(* C15: when week.schedule has a non-null entry, the schedule used is
   week.schedule without its null entries, in order and unchanged, with no
   entry made from a best bet; entries made from best bets are used only
   when the official schedule is absent, empty or all null. *)
C15_OfficialFirst ==
  (Returned("renderSchedule") /\ ~IsNullish(Week)) =>
    /\ OfficialGames # <<>> =>
         /\ ret.games = OfficialGames
         /\ \A i \in 1..Len(ret.games) : ~IsSynthesized(ret.games[i])
    /\ (\E i \in 1..Len(ret.games) : IsSynthesized(ret.games[i])) =>
         OfficialGames = <<>>

(* C15 witness: a week with an official schedule of two games around a null
   and with populated best bets has been rendered as the two games. *)
C15_Witness ==
  /\ Returned("renderSchedule")
  /\ ~IsNullish(Week)
  /\ Prop(Week, "schedule") = Arr(<<GameTwo, Null, GameOne>>)
  /\ buildScheduleFromBestBets(Week).v # <<>>
  /\ ret.games = <<GameTwo, GameOne>>

Players == Prop(Week, "players").v
BestBetOf(i) == Prop(Players[i], "best_bet")
NameOf(i) == Prop(Players[i], "name")
Games == ret.v

HasText(x) == IsString(x) /\ \E i \in 1..Len(x.v) : x.v[i] \notin WhiteSpace

(* A best bet with a team, a line or a time in it. *)
IsPopulated(bestBet) ==
  \/ HasText(Prop(bestBet, "team"))
  \/ IsFiniteNumber(Prop(bestBet, "line"))
  \/ HasText(Prop(bestBet, "line"))
  \/ HasText(Prop(bestBet, "time"))

(* A date, "T", hh:mm:ss and "Z" *)
IsFullIso(time) ==
  /\ IsString(time) /\ Len(time.v) = 11
  /\ time.v[1] \in DaySet /\ time.v[2] = "T" /\ time.v[11] = "Z"
  /\ DateParse(time.v) # NaN

EntriesOf(name) == {j \in 1..Len(Games) : Prop(Games[j], "player") = name}

(* C16: the synthesized schedule has exactly one entry for each player
   whose best bet has a team, a line or a time, and none for another
   player; the entry has the player's name, the best bet's team or the
   empty string, its line, an empty opponent, and a date that is not null
   when the best bet's time is a full ISO datetime. *)
C16_OneEntryPerBestBet ==
  (Returned("buildScheduleFromBestBets") /\ ~IsNullish(Week)) =>
    /\ \A i \in 1..Len(Players) :
         Cardinality(EntriesOf(NameOf(i))) =
           IF IsPopulated(BestBetOf(i)) THEN 1 ELSE 0
    /\ \A j \in 1..Len(Games) :
         \E i \in 1..Len(Players) :
           /\ Prop(Games[j], "player") = NameOf(i)
           /\ Prop(Games[j], "team") =
                (IF HasText(Prop(BestBetOf(i), "team"))
                   THEN Prop(BestBetOf(i), "team") ELSE Empty)
           /\ Prop(Games[j], "line") =
                (IF IsNullish(Prop(BestBetOf(i), "line")) THEN Null
                 ELSE Prop(BestBetOf(i), "line"))
           /\ Prop(Games[j], "opponent") = Empty
           /\ IsFullIso(Prop(BestBetOf(i), "time")) =>
                Prop(Games[j], "date").t # "null"

(* C16 witness: of two players, one with the best bet X, -3, 1 pm of the
   first day and one with an empty best bet, the synthesized schedule has
   the entry of the first alone, with its team, its line and a date. *)
C16_Witness ==
  /\ Returned("buildScheduleFromBestBets")
  /\ ~IsNullish(Week)
  /\ Len(Players) = 2
  /\ \E i \in 1..2 :
       BestBetOf(i) = Obj([team |-> TeamX, line |-> Num(-3 * Scale),
                           time |-> OnePm])
  /\ \E i \in 1..2 : BestBetOf(i).t = "obj" /\ ~IsPopulated(BestBetOf(i))
  /\ Len(Games) = 1
  /\ Prop(Games[1], "team") = TeamX
  /\ Prop(Games[1], "line") = Num(-3 * Scale)
  /\ Prop(Games[1], "date") = OnePm

IsMidnightIso(time) ==
  /\ IsFullIso(time)
  /\ SubSeq(time.v, 3, 10) = <<"0", "0", ":", "0", "0", ":", "0", "0">>

(* C17: the time of a synthesized entry is null in place of best_bet.time
   exactly when that is an ISO timestamp of midnight; every other ISO
   datetime (00:00:30, 13:00:00) and every free-text time is kept as it
   is. *)
C17_TimeKept ==
  (Returned("buildScheduleFromBestBets") /\ ~IsNullish(Week)) =>
    \A j \in 1..Len(Games), i \in 1..Len(Players) :
      (Prop(Games[j], "player") = NameOf(i)
         /\ IsString(Prop(BestBetOf(i), "time"))) =>
        /\ Prop(Games[j], "time").t = "null"
             <=> IsMidnightIso(Prop(BestBetOf(i), "time"))
        /\ ~IsMidnightIso(Prop(BestBetOf(i), "time")) =>
             Prop(Games[j], "time") = Prop(BestBetOf(i), "time")

(* C18: the synthesized schedule is in ascending order of the sort key of
   time ?? date, and two entries of equal keys, two keys of +Infinity
   included, are in ascending order of the player name, whatever the order
   of week.players. *)
C18_SortedByKeyThenName ==
  Returned("buildScheduleFromBestBets") =>
    \A i, j \in 1..Len(Games) :
      i < j =>
        /\ ~KeyLess(SortKey(Games[j]), SortKey(Games[i]))
        /\ SortKey(Games[i]) = SortKey(Games[j]) =>
             localeCompare(Prop(Games[i], "player").v,
                           Prop(Games[j], "player").v) < 0

-----------------------------------------------------------------------------
(* Leaderboard: properties *)

Standings == input.standings
Leaders == ret.v

(* The weeks of a player whose score is a finite number *)
QualifyingWeeks(weeks) ==
  IF weeks.t \in {"obj", "arr"}
    THEN {k \in DOMAIN weeks.v : weeks.v[k].t = "num"}
  ELSE {}

EntriesFor(player) ==
  {i \in 1..Len(Leaders) : Prop(Leaders[i], "player") = Str(player)}

(* C19: for every player of standings the entry has the sum of the
   player's finite numeric weekly scores as total, their count as
   weeksPlayed and total / weeksPlayed as average; a player without such a
   score has no entry, so weeksPlayed is at least 1 in every entry. *)
C19_TotalsAndAverages ==
  (Returned("computeLeaderboard") /\ ~IsNullish(Standings)) =>
    /\ \A player \in DOMAIN Standings.v :
         LET weeks == Standings.v[player]
             scores == QualifyingWeeks(weeks)
         IN IF scores = {} THEN EntriesFor(player) = {}
            ELSE /\ Cardinality(EntriesFor(player)) = 1
                 /\ \A i \in EntriesFor(player) :
                      /\ Prop(Leaders[i], "total") =
                           Num(SumScores(weeks, scores))
                      /\ Prop(Leaders[i], "weeksPlayed") =
                           Num(Cardinality(scores) * Scale)
                      /\ Prop(Leaders[i], "average").v[1] * Cardinality(scores)
                           = SumScores(weeks, scores)
                               * Prop(Leaders[i], "average").v[2]
    /\ \A i \in 1..Len(Leaders) :
         /\ Prop(Leaders[i], "weeksPlayed").v >= Scale
         /\ Prop(Leaders[i], "player").v \in DOMAIN Standings.v

(* C19 witness: a player with the scores "7" and 3 has the entry of total
   3 over one week, and another player, without a finite numeric score,
   has none. *)
C19_Witness ==
  /\ Returned("computeLeaderboard")
  /\ ~IsNullish(Standings)
  /\ \E player \in DOMAIN Standings.v :
       /\ Standings.v[player] =
            Obj(Week1.v :> SevenStr @@ Week2.v :> Num(3 * Scale))
       /\ \E i \in EntriesFor(player) :
            /\ Prop(Leaders[i], "total") = Num(3 * Scale)
            /\ Prop(Leaders[i], "weeksPlayed") = Num(Scale)
            /\ Prop(Leaders[i], "average") = Ratio(3 * Scale, 1)
  /\ \E player \in DOMAIN Standings.v :
       /\ Standings.v[player] = Obj(Week1.v :> NaN @@ Week2.v :> Inf(1))
       /\ EntriesFor(player) = {}

(* a ranks strictly before b: higher total, then more weeks played, then
   higher average, then the name that comes first. *)
Outranks(a, b) ==
  LET ta == Prop(a, "total").v
      tb == Prop(b, "total").v
      wa == Prop(a, "weeksPlayed").v
      wb == Prop(b, "weeksPlayed").v
      aa == Prop(a, "average")
      ab == Prop(b, "average")
  IN \/ ta > tb
     \/ ta = tb /\ wa > wb
     \/ ta = tb /\ wa = wb /\ RatioLess(ab, aa)
     \/ /\ ta = tb /\ wa = wb /\ aa = ab
        /\ localeCompare(Prop(a, "player").v, Prop(b, "player").v) < 0

(* The orders in which n properties can have been created *)
Orders(n) == {f \in [1..n -> 1..n] : \A i, j \in 1..n : f[i] = f[j] => i = j}

Reordered(standings, order) ==
  [standings EXCEPT !.keys = [i \in 1..Len(standings.keys) |->
                                standings.keys[order[i]]]]

(* C20: the leaderboard is in descending order of total, then of
   weeksPlayed, then of average, then in ascending order of the player
   name; no two entries tie, so the ranking is the same for every order in
   which the players were put into standings. *)
C20_TotalOrder ==
  (Returned("computeLeaderboard") /\ ~IsNullish(Standings)) =>
    /\ \A i, j \in 1..Len(Leaders) :
         i < j => Outranks(Leaders[i], Leaders[j])
    /\ \A order \in Orders(Len(Standings.keys)) :
         computeLeaderboard(Reordered(Standings, order)) = ret

(* C20 witness: B was put into standings before A, both have a total of 7
   over two weeks, and A is ranked first. *)
C20_Witness ==
  /\ Returned("computeLeaderboard")
  /\ ~IsNullish(Standings)
  /\ Standings.keys = <<NameB.v, NameA.v>>
  /\ Len(Leaders) = 2
  /\ Prop(Leaders[1], "total") = Num(7 * Scale)
  /\ Prop(Leaders[2], "total") = Num(7 * Scale)
  /\ Prop(Leaders[1], "weeksPlayed") = Num(2 * Scale)
  /\ Prop(Leaders[2], "weeksPlayed") = Num(2 * Scale)
  /\ Prop(Leaders[1], "player") = NameA
  /\ Prop(Leaders[2], "player") = NameB

-----------------------------------------------------------------------------
(* Team aggregation: what the properties refer to *)

TeamWeeks == input.weeks.v

PlayersAt(i) ==
  IF Truthy(TeamWeeks[i]) /\ Prop(TeamWeeks[i], "players").t = "arr"
    THEN Prop(TeamWeeks[i], "players").v ELSE <<>>

PicksAt(i, j) ==
  IF Truthy(PlayersAt(i)[j]) /\ Prop(PlayersAt(i)[j], "picks").t = "arr"
    THEN Prop(PlayersAt(i)[j], "picks").v ELSE <<>>

(* Where the dataset holds a pick: week, player and pick, by position *)
PickPlaces ==
  {p \in (1..Len(TeamWeeks)) \X (1..4) \X (1..3) :
     /\ p[2] <= Len(PlayersAt(p[1]))
     /\ p[3] <= Len(PicksAt(p[1], p[2]))
     /\ Truthy(PicksAt(p[1], p[2])[p[3]])}

TeamAt(p) == Prop(PicksAt(p[1], p[2])[p[3]], "team")
AwardedAt(p) == Prop(PicksAt(p[1], p[2])[p[3]], "awarded_points")
WeekNameAt(p) == Prop(TeamWeeks[p[1]], "name")

IsNamedTeam(x) == IsString(x) /\ Trim(x.v) # <<>>

(* The picks of a team in the weeks taken: the team as written in the pick
   is the name up to the white space around it. *)
PicksOfTeam(team, taken) ==
  {p \in PickPlaces : /\ p[1] \in taken
                      /\ IsNamedTeam(TeamAt(p))
                      /\ Trim(TeamAt(p).v) = team}

RECURSIVE PointsOf(_)
PointsOf(places) ==
  IF places = {} THEN 0
  ELSE LET p == CHOOSE x \in places : TRUE
       IN (IF IsNumber(AwardedAt(p)) THEN AwardedAt(p).v ELSE 0)
            + PointsOf(places \ {p})

WeekNamesOf(places) ==
  {WeekNameAt(p) : p \in {q \in places : IsNamedTeam(WeekNameAt(q))}}

IsWholeNumber(x, n) == x = Num(n * Scale)

(* An entry says of its team what the picks of the weeks taken say. *)
EntryMatches(entry, taken) ==
  LET places == PicksOfTeam(Prop(entry, "team").v, taken)
  IN /\ places # {}
     /\ IsWholeNumber(Prop(entry, "betCount"), Cardinality(places))
     /\ Prop(entry, "totalPoints") = Num(PointsOf(places))
     /\ IsWholeNumber(Prop(entry, "weekCount"),
                      Cardinality(WeekNamesOf(places)))
     /\ Prop(entry, "averagePoints").v[1] * Cardinality(places)
          = PointsOf(places) * Prop(entry, "averagePoints").v[2]

(* The entries are one for each team picked in the weeks taken. *)
StatsMatch(stats, taken) ==
  /\ \A i \in 1..Len(stats) : EntryMatches(stats[i], taken)
  /\ \A i, j \in 1..Len(stats) :
       Prop(stats[i], "team") = Prop(stats[j], "team") => i = j
  /\ \A p \in PickPlaces :
       p[1] \in taken /\ IsNamedTeam(TeamAt(p))
         => \E i \in 1..Len(stats) :
              Prop(stats[i], "team").v = Trim(TeamAt(p).v)

(* C21: aggregateTeamStats keys its entries by the trimmed, case-sensitive
   team of the picks and skips the picks without a team; of each team,
   betCount is the number of its picks (at least one), totalPoints the sum
   of the numeric awarded_points, weekCount the number of distinct week
   names among the picks and averagePoints totalPoints / betCount. *)
C21_TeamTotals ==
  Returned("aggregateTeamStats")
    => StatsMatch(ret.v, 1..Len(TeamWeeks))

(* C21: "Jets" is picked three times in two weeks, once as " Jets " and
   once without points, next to "jets" or "Bills". *)
C21_Witness ==
  /\ Returned("aggregateTeamStats")
  /\ \E i \in 1..Len(ret.v) :
       /\ Prop(ret.v[i], "team") = Jets
       /\ IsWholeNumber(Prop(ret.v[i], "betCount"), 3)
       /\ IsWholeNumber(Prop(ret.v[i], "totalPoints"), 7)
       /\ IsWholeNumber(Prop(ret.v[i], "weekCount"), 2)
  /\ \E p \in PickPlaces : TeamAt(p) = JetsPadded
  /\ \E p \in PickPlaces : IsNamedTeam(TeamAt(p)) /\ ~IsNumber(AwardedAt(p))
  /\ Len(ret.v) = 2

(* The weeks that pass the filter of renderTeamStats, by position *)
TakenWeeks ==
  {i \in 1..Len(TeamWeeks) :
     \/ ~Truthy(input.selectedWeek)
     \/ Prop(TeamWeeks[i], "name") = input.selectedWeek}

TeamField(entry, field) == Prop(entry, field).v

NameBefore(a, b) == localeCompare(TeamField(a, "team"), TeamField(b, "team")) < 0

(* a ranks above b by count: more bets, then more points, then the name *)
CountBefore(a, b) ==
  \/ TeamField(a, "betCount") > TeamField(b, "betCount")
  \/ /\ TeamField(a, "betCount") = TeamField(b, "betCount")
     /\ \/ TeamField(a, "totalPoints") > TeamField(b, "totalPoints")
        \/ /\ TeamField(a, "totalPoints") = TeamField(b, "totalPoints")
           /\ NameBefore(a, b)

(* a ranks above b by points: more points, then more weeks, then more bets,
   then the name *)
PointsBefore(a, b) ==
  \/ TeamField(a, "totalPoints") > TeamField(b, "totalPoints")
  \/ /\ TeamField(a, "totalPoints") = TeamField(b, "totalPoints")
     /\ \/ TeamField(a, "weekCount") > TeamField(b, "weekCount")
        \/ /\ TeamField(a, "weekCount") = TeamField(b, "weekCount")
           /\ \/ TeamField(a, "betCount") > TeamField(b, "betCount")
              \/ /\ TeamField(a, "betCount") = TeamField(b, "betCount")
                 /\ NameBefore(a, b)

IsRearranged(ranking, stats) ==
  /\ Len(ranking) = Len(stats)
  /\ \A i \in 1..Len(stats) : \E j \in 1..Len(ranking) : ranking[j] = stats[i]

(* The place of the first pick of a team in the loops over the weeks taken *)
ComesFirst(p, q) ==
  \/ p[1] < q[1]
  \/ p[1] = q[1] /\ p[2] < q[2]
  \/ p[1] = q[1] /\ p[2] = q[2] /\ p[3] < q[3]

InOrderOfFirstPick(stats) ==
  \A i, j \in 1..Len(stats) :
    i < j => \E p \in PicksOfTeam(TeamField(stats[i], "team"), TakenWeeks) :
               \A q \in PicksOfTeam(TeamField(stats[j], "team"), TakenWeeks) :
                 ComesFirst(p, q)

(* C22: the two rankings of renderTeamStats are total orders over the same
   entries, byCount by betCount descending, totalPoints descending and team
   ascending, byPoints by totalPoints descending, weekCount descending,
   betCount descending and team ascending; the aggregate keeps its own
   order, that of the first pick of each team, and its entries. *)
C22_TwoRankings ==
  Returned("renderTeamStats")
    => /\ IsRearranged(ret.byCount, ret.stats)
       /\ IsRearranged(ret.byPoints, ret.stats)
       /\ \A i, j \in 1..Len(ret.stats) :
            /\ i < j => CountBefore(ret.byCount[i], ret.byCount[j])
            /\ i < j => PointsBefore(ret.byPoints[i], ret.byPoints[j])
            /\ i # j => /\ CountBefore(ret.stats[i], ret.stats[j])
                             # CountBefore(ret.stats[j], ret.stats[i])
                        /\ PointsBefore(ret.stats[i], ret.stats[j])
                             # PointsBefore(ret.stats[j], ret.stats[i])
            /\ ~CountBefore(ret.stats[i], ret.stats[i])
            /\ ~PointsBefore(ret.stats[i], ret.stats[i])
       /\ \A i, j, k \in 1..Len(ret.stats) :
            /\ CountBefore(ret.stats[i], ret.stats[j])
                 /\ CountBefore(ret.stats[j], ret.stats[k])
                 => CountBefore(ret.stats[i], ret.stats[k])
            /\ PointsBefore(ret.stats[i], ret.stats[j])
                 /\ PointsBefore(ret.stats[j], ret.stats[k])
                 => PointsBefore(ret.stats[i], ret.stats[k])
       /\ InOrderOfFirstPick(ret.stats)
       /\ StatsMatch(ret.stats, TakenWeeks)

(* C22: three teams in three different orders, two of them with the same
   bets and different points, two with the same points and different
   weeks. *)
C22_Witness ==
  /\ Returned("renderTeamStats")
  /\ Len(ret.stats) = 3
  /\ ret.byCount # ret.stats
  /\ ret.byPoints # ret.stats
  /\ ret.byCount # ret.byPoints
  /\ \E i, j \in 1..3 :
       /\ TeamField(ret.stats[i], "betCount")
            = TeamField(ret.stats[j], "betCount")
       /\ TeamField(ret.stats[i], "totalPoints")
            # TeamField(ret.stats[j], "totalPoints")
  /\ \E i, j \in 1..3 :
       /\ TeamField(ret.stats[i], "totalPoints")
            = TeamField(ret.stats[j], "totalPoints")
       /\ TeamField(ret.stats[i], "weekCount")
            # TeamField(ret.stats[j], "weekCount")

(* The names a week can be selected by: those of the dataset's weeks *)
WeekOptions ==
  {Prop(TeamWeeks[i], "name") :
     i \in {j \in 1..Len(TeamWeeks) : Truthy(Prop(TeamWeeks[j], "name"))}}

EveryPickInNamedWeek ==
  \A p \in PickPlaces : IsString(WeekNameAt(p)) /\ Truthy(WeekNameAt(p))

(* A field of the team's entry in the table filtered by a week, 0 when the
   team has no entry there. *)
FilteredValue(name, team, field) ==
  LET stats == renderTeamStats(input.weeks, name).stats
  IN IF \E i \in 1..Len(stats) : TeamField(stats[i], "team") = team
       THEN TeamField(stats[CHOOSE i \in 1..Len(stats) :
                              TeamField(stats[i], "team") = team], field)
     ELSE 0

RECURSIVE SumOverWeeks(_, _, _)
SumOverWeeks(names, team, field) ==
  IF names = {} THEN 0
  ELSE LET name == CHOOSE x \in names : TRUE
       IN FilteredValue(name, team, field)
            + SumOverWeeks(names \ {name}, team, field)

(* C23: with a week filter renderTeamStats aggregates only the weeks whose
   name equals the filter, so that weekCount is at most 1; without a filter
   it counts the picks of every week, and then, every pick being in a named
   week, betCount and totalPoints of a team are the sums of its values in
   the tables filtered by each week. *)
C23_WeekFilter ==
  Returned("renderTeamStats")
    => /\ Truthy(input.selectedWeek)
            => /\ StatsMatch(ret.stats,
                             {i \in 1..Len(TeamWeeks) :
                                Prop(TeamWeeks[i], "name")
                                  = input.selectedWeek})
               /\ \A i \in 1..Len(ret.stats) :
                    TeamField(ret.stats[i], "weekCount") <= Scale
       /\ ~Truthy(input.selectedWeek)
            => /\ StatsMatch(ret.stats, 1..Len(TeamWeeks))
               /\ EveryPickInNamedWeek
                    => \A i \in 1..Len(ret.stats) :
                         /\ TeamField(ret.stats[i], "betCount")
                              = SumOverWeeks(WeekOptions,
                                             TeamField(ret.stats[i], "team"),
                                             "betCount")
                         /\ TeamField(ret.stats[i], "totalPoints")
                              = SumOverWeeks(WeekOptions,
                                             TeamField(ret.stats[i], "team"),
                                             "totalPoints")

(* C23: "W1" is selected, "Jets" is picked in "W1" and in "W2", and the
   table counts the pick of "W1" alone. *)
C23_Witness ==
  /\ Returned("renderTeamStats")
  /\ input.selectedWeek = Week1
  /\ \E p, q \in PicksOfTeam(Jets.v, 1..Len(TeamWeeks)) :
       WeekNameAt(p) = Week1 /\ WeekNameAt(q) = Week2
  /\ \E i \in 1..Len(ret.stats) :
       /\ Prop(ret.stats[i], "team") = Jets
       /\ IsWholeNumber(Prop(ret.stats[i], "betCount"), 1)
       /\ IsWholeNumber(Prop(ret.stats[i], "weekCount"), 1)

(* Without a filter the bets of "Jets" are those of "W1" and "W2" together. *)
C23_SumReached ==
  /\ Returned("renderTeamStats")
  /\ ~Truthy(input.selectedWeek)
  /\ EveryPickInNamedWeek
  /\ Cardinality(WeekOptions) = 2
  /\ \E i \in 1..Len(ret.stats) :
       /\ Prop(ret.stats[i], "team") = Jets
       /\ IsWholeNumber(Prop(ret.stats[i], "betCount"), 3)
       /\ FilteredValue(Week1, Jets.v, "betCount") = Scale
       /\ FilteredValue(Week2, Jets.v, "betCount") = 2 * Scale

-----------------------------------------------------------------------------
(* Heatmap colours: what the properties refer to *)

LowChannels == normaliseColor(input.theme.heatmapLow)
HighChannels == normaliseColor(input.theme.heatmapHigh)
BothColours == Truthy(LowChannels) /\ Truthy(HighChannels)

Between(x, a, b) == (a <= x /\ x <= b) \/ (b <= x /\ x <= a)

(* x is p / q rounded to a whole number, q > 0 *)
IsRounded(x, p, q) == 2 * p - q < 2 * x * q /\ 2 * x * q <= 2 * p + q

(* The channel c of the background is the mix of the two colours at the
   ratio p / q. *)
IsMixedAt(c, p, q) ==
  IsRounded(ret.v.background.v[c],
            LowChannels.v[c] * q + (HighChannels.v[c] - LowChannels.v[c]) * p,
            q)

(* The score's place between the least and the greatest score, as the
   numerator and the denominator of the clamped ratio *)
ClampedPart ==
  IF input.score.v <= input.minScore.v THEN 0
  ELSE IF input.score.v >= input.maxScore.v
    THEN input.maxScore.v - input.minScore.v
  ELSE input.score.v - input.minScore.v

AlphaInThousandths(channels) ==
  (2000 * channels.v[4][1] + channels.v[4][2]) \div (2 * channels.v[4][2])

(* C24: computeHeatmapColor returns null exactly when the score is not a
   finite number; otherwise the background mixes the low and the high colour
   at the ratio 0.5 when minScore equals maxScore and at
   (score - minScore) / (maxScore - minScore) clamped to [0, 1] when not, so
   that a score at or below the least gives the channels of the low colour,
   one at or above the greatest those of the high colour, and every channel
   lies between those of the two colours. *)
C24_HeatmapColor ==
  Returned("computeHeatmapColor")
    => /\ ret = Null <=> ~IsFiniteNumber(input.score)
       /\ IsFiniteNumber(input.score) /\ BothColours
            => /\ \A c \in 1..3 :
                    /\ IF input.minScore = input.maxScore
                         THEN IsMixedAt(c, 1, 2)
                       ELSE IsMixedAt(c, ClampedPart,
                                      input.maxScore.v - input.minScore.v)
                    /\ Between(ret.v.background.v[c],
                               LowChannels.v[c], HighChannels.v[c])
                    /\ input.minScore.v < input.maxScore.v
                         /\ input.score.v <= input.minScore.v
                         => ret.v.background.v[c] = LowChannels.v[c]
                    /\ input.minScore.v < input.maxScore.v
                         /\ input.score.v >= input.maxScore.v
                         => ret.v.background.v[c] = HighChannels.v[c]
               /\ Between(ret.v.background.v[4],
                          AlphaInThousandths(LowChannels),
                          AlphaInThousandths(HighChannels))

(* C24: a score of 1 between 0 and 4 in the default theme gives
   rgba(195, 139, 76, 1), a quarter of the way from orange to cyan. *)
C24_Witness ==
  /\ Returned("computeHeatmapColor")
  /\ input.theme = Theme(Orange, Cyan)
  /\ input.score = Num(Scale)
  /\ input.minScore = Num(0)
  /\ input.maxScore = Num(4 * Scale)
  /\ ret.v.background = Rgba(195, 139, 76, 1000)

-----------------------------------------------------------------------------
(* Tolerance of malformed datasets *)

(* C25: for a dataset with missing fields, wrongly typed fields, null
   entries or empty arrays, schedule building and its sort, and the team
   aggregation, complete without raising; a null player entry or a player
   without a name in week.players does not make schedule building raise. *)
C25_CompletesWithoutRaising == ret # TypeError

(* A week whose players are two objects without a name and with best bets
   of the same time: the sort cannot return. *)
C25_NamelessRaise ==
  /\ Returned("buildScheduleFromBestBets")
  /\ Prop(input.week, "players").t = "arr"
  /\ \A i \in 1..Len(Prop(input.week, "players").v) :
       /\ Truthy(Prop(input.week, "players").v[i])
       /\ Prop(Prop(input.week, "players").v[i], "name") = Undefined
  /\ ret = TypeError

(* The team aggregation returns for every one of these weeks. *)
C25_AggregationReturns ==
  Returned("aggregateTeamStats") => ret.t = "arr"

-----------------------------------------------------------------------------
(* Standings held as strings *)

(* A string that reads as a number, such as "7" *)
IsNumericString(x) ==
  IsString(x) /\ x.v # <<>> /\ \A i \in 1..Len(x.v) : x.v[i] \in DigitSet

OnlyNumericStrings(weeks) ==
  /\ weeks.t = "obj"
  /\ DOMAIN weeks.v # {}
  /\ \A k \in DOMAIN weeks.v : IsNumericString(weeks.v[k])

(* C27: a standings value held as a numeric string such as "7" is returned
   by getWeeklyScore as the weekly score, and is not counted by
   computeLeaderboard toward total or weeksPlayed: a player whose standings
   values are all numeric strings has no leaderboard entry. *)
C27_NumericStringStandings ==
  /\ (Returned("getWeeklyScore") /\ IsNumericString(StandingsLookup))
       => /\ ret = Num(IntOfDigits(StandingsLookup.v) * Scale)
          /\ StandingsLookup = SevenStr => ret = Num(7 * Scale)
  /\ Returned("computeLeaderboard")
       => \A player \in DOMAIN Standings.v :
            /\ OnlyNumericStrings(Standings.v[player])
                 => EntriesFor(player) = {}
            /\ \A i \in EntriesFor(player) :
                 /\ Prop(Leaders[i], "weeksPlayed").v
                      = Scale * Cardinality(
                                  {k \in DOMAIN Standings.v[player].v :
                                     ~IsString(Standings.v[player].v[k])
                                       /\ IsFiniteNumber(
                                            Standings.v[player].v[k])})
                 /\ \A k \in DOMAIN Standings.v[player].v :
                      IsNumericString(Standings.v[player].v[k])
                        => Prop(Leaders[i], "total").v
                             = SumScores(Standings.v[player],
                                         QualifyingWeeks(Standings.v[player])
                                           \ {k})

(* C27: the player's only standings value is "7": the weekly score of the
   week is 7 and the leaderboard, with another player in it, has no entry
   for the player. *)
C27_Witness ==
  /\ Returned("computeLeaderboard")
  /\ StandingsLookup = SevenStr
  /\ OnlyNumericStrings(Standings.v[Prop(input.player, "name").v])
  /\ getWeeklyScore(input.player, input.standings, input.weekName)
       = Num(7 * Scale)
  /\ EntriesFor(Prop(input.player, "name").v) = {}
  /\ Len(Leaders) = 1

(* The weekly score of such a player is returned. *)
C27_ScoreReached ==
  /\ Returned("getWeeklyScore")
  /\ StandingsLookup = SevenStr
  /\ OnlyNumericStrings(Standings.v[Prop(input.player, "name").v])
  /\ ret = Num(7 * Scale)

-----------------------------------------------------------------------------
(* The dashboard: what the properties refer to *)

(* The step was a call of updateWeek: by a caller, a change of the week
   select, a theme refresh with an active week, or init() with a first
   week. *)
CalledUpdateWeek ==
  /\ pc \in {"updateWeek", "weekSelect", "refreshForTheme", "init"}
  /\ IsString(input.weekName)

(* The week the last call named is in dataset.weeks. *)
CalledWeekExists ==
  /\ Truthy(dataset)
  /\ FindWeek(dataset, input.weekName) # 0

CalledWeek == WeeksOf(dataset)[FindWeek(dataset, input.weekName)]

(* The names of the players of the called week, in the order of the
   dataset *)
NamesInDataset ==
  [i \in 1..Len(PlayersOf(CalledWeek)) |->
     Prop(PlayersOf(CalledWeek)[i], "name")]

NamesInTable ==
  [i \in 1..Len(playersTableBody) |-> playersTableBody[i].player]

(* C26: no operation mutates the dataset.  init() stores one of the fetched
   datasets, and from then on no step (week selection, team-week selection,
   theme refresh, a call of updateWeek or renderCharts) changes
   dataset.weeks, with every week's schedule, players and picks in their
   order, or dataset.standings: the sort of renderPlayers works on a
   copy. *)
C26_DatasetNotMutated ==
  [][IF dataset = Undefined THEN dataset' \in DatasetValues \cup {Undefined}
     ELSE dataset' = dataset]_vars

(* C26, witness: a week selection or a theme refresh has filled the players
   table in another order than the one of week.players, and the dataset is
   still one of those fetched. *)
C26_Witness ==
  /\ pc \in {"weekSelect", "refreshForTheme"}
  /\ CalledWeekExists
  /\ dataset \in DatasetValues
  /\ Len(NamesInTable) = Len(NamesInDataset)
  /\ NamesInTable # NamesInDataset

(* C26, second witness: a team-week selection has filled the team tables
   from the dataset. *)
C26_TeamSelectionReached ==
  /\ pc = "teamWeekSelect"
  /\ input.weekName = Week2
  /\ teamTables.teamBets # <<>>
  /\ dataset \in DatasetValues

(* The charts of a canvas that were made and not destroyed *)
LiveCharts(canvas) ==
  {i \in 1..Len(charts) :
     charts[i].canvas = canvas /\ charts[i].destroyed = 0}

(* The chart a handle refers to *)
HeldBy(handle) == IF handle.t = "chart" THEN {handle.v} ELSE {}

(* C29: at most one scatter chart and one bar chart exist that were not
   destroyed, and they are the ones the handles refer to: a chart that
   scatterChart or barChart held and holds no more (it was replaced, or
   the canvas or the Chart library was missing) is destroyed, and a handle
   never refers to a destroyed chart. *)
C29_OneLiveChartEach ==
  /\ Cardinality(LiveCharts("scatter")) <= 1
  /\ Cardinality(LiveCharts("bar")) <= 1
  /\ LiveCharts("scatter") = HeldBy(scatterChart)
  /\ LiveCharts("bar") = HeldBy(barChart)

(* C29, witness: the charts of a first render were replaced by those of a
   second one. *)
C29_Witness ==
  /\ Len(charts) = 4
  /\ charts[1].destroyed = 1 /\ charts[2].destroyed = 1
  /\ scatterChart = Chart(3) /\ barChart = Chart(4)

(* C29, second witness: charts were held when a canvas or the Chart library
   was missing; they are destroyed and the handles are null. *)
C29_ReleasedReached ==
  /\ Len(charts) = 2
  /\ charts[1].destroyed = 1 /\ charts[2].destroyed = 1
  /\ scatterChart = Null /\ barChart = Null

(* The three tables hold the rows of the called week. *)
TablesOfCalledWeek ==
  /\ ret # TypeError
  /\ scheduleTableBody = renderSchedule(CalledWeek).games
  /\ playersTableBody =
       PlayerRows(PlayersOf(CalledWeek), Prop(dataset, "standings"),
                  input.weekName)
  /\ heatmapTableBody =
       HeatmapRows(PlayersOf(CalledWeek), Prop(dataset, "standings"),
                   input.weekName)

(* After a call of updateWeek with the name of a week the tables hold the
   rows of that week and no other row. *)
ShowsCalledWeek ==
  (CalledUpdateWeek /\ CalledWeekExists) => TablesOfCalledWeek

(* C30: after every call of updateWeek whose week name exists in
   dataset.weeks the schedule, players and heatmap tables hold the rows of
   exactly that week, and a call with an unknown name or before the dataset
   is loaded leaves the three tables as they are; so the tables always show
   the most recent call whose week exists. *)
C30_TablesOfLastCall ==
  [][/\ ShowsCalledWeek'
     /\ (CalledUpdateWeek' /\ ~CalledWeekExists') =>
          UNCHANGED <<scheduleTableBody, playersTableBody,
                      heatmapTableBody>>]_vars

(* C30, the case that fails: a week selection raised, and the players table
   still holds rows although the players of the called week have none to
   show (a null player), or the schedule table is empty although the
   players table is not. *)
C30_StaleRows ==
  /\ pc = "weekSelect"
  /\ ret = TypeError
  /\ CalledWeekExists
  /\ scheduleTableBody = <<>>
  /\ playersTableBody # <<>>

(* C30, for the calls that return: after a call of updateWeek that named a
   week of the dataset and returned, the tables hold the rows of that
   week. *)
C30_TablesUnlessRaised == ret # TypeError => ShowsCalledWeek

(* C30, the calls that find no week: a call with an unknown name or before
   the dataset is loaded leaves the three tables as they are. *)
C30_UnknownChangesNothing ==
  [][(CalledUpdateWeek' /\ ~CalledWeekExists') =>
       UNCHANGED <<scheduleTableBody, playersTableBody,
                   heatmapTableBody>>]_vars

(* C30, a call that returns: the week select went from a week with rows to
   another week with rows, and the tables hold the rows of the second. *)
C30_SecondWeekShown ==
  /\ pc = "weekSelect"
  /\ input.weekName = Week2
  /\ ret # TypeError
  /\ CalledWeekExists
  /\ playersTableBody # <<>>
  /\ heatmapTableBody # <<>>
  /\ scheduleTableBody # <<>>
  /\ playersTableBody #
       PlayerRows(PlayersOf(WeeksOf(dataset)[1]),
                  Prop(dataset, "standings"), Week1)

====
